---- MODULE Spec2Model ----
(***************************************************************************)
(* A model of the sample programs of the repository.  The samples do not   *)
(* share state, so each one is a small state machine of its own with its   *)
(* own specification; the variables of the machines a specification does   *)
(* not run stay at their idle values.                                      *)
(***************************************************************************)
EXTENDS Integers, Sequences, FiniteSets, TLC

VARIABLES
    \* compute/.../create_with_subnet.py
    tplPc,        \* position in create_template_with_subnet
    tplName,      \* the template_name argument
    tplOp,        \* the ExtendedOperation returned by insert
    tplCalls,     \* the remote calls issued so far, in order
    tplStderr,    \* the lines printed to sys.stderr
    tplWait,      \* how wait_for_extended_operation ended
    tplRet,       \* the value create_template_with_subnet returned
    tplExc,       \* the exception that left create_template_with_subnet
    \* one invocation of a sample function and the library calls it makes
    smpFn,        \* the sample function invoked
    smpPc,        \* the index of its next library call
    smpAttempt,   \* how many times a decorator has invoked the function body
    smpCalls,     \* the library calls issued so far, in order
    smpRaised,    \* the exceptions the library calls raised, in order
    smpOutcome,   \* "running", "returned", "handled" or "raised"
    smpExc,       \* the exception that left the function
    \* appengine/python3-wormhole-samples/blobstore/wsgi/main.py
    rtrPc,        \* "waiting" for the request, "request", "called" once __call__ ended
    rtrEnv,       \* the WSGI environ of the request: PATH_INFO, app.url_args
    rtrHandlers,  \* the handler classes instantiated for the request, in order
    rtrResp,      \* what __call__ did: the status and Content-Type, or a raise
    \* compute/.../ip_address/get_static_ip_address.py
    ipPc,         \* "start" or "done"
    ipArgs,       \* project_id, address_name, region
    ipStore,      \* the addresses the service holds
    ipCalls,      \* the get requests issued, in order
    ipGot,        \* what the client's get did
    ipRet,        \* the Address returned
    ipExc,        \* the exception that left the function
    \* vision/cloud-client/detect/beta_snippets.py, run as a script
    visPc,        \* "start", "parsed", "done" or "error"
    visArgv,      \* the command line: the subcommand and its argument
    visArgs,      \* the Namespace parse_args returned
    visCalled,    \* the snippet functions called, with their argument
    visErr,       \* the error the script ended in
    \* video/cloud-client/analyze/analyze.py, run as a script
    vidPc,        \* "start", "done" or "error"
    vidArgv,      \* the command line: the command and its path
    vidCalled,    \* the analysis functions called, with their argument
    vidErr,       \* the error the script ended in
    \* appengine/flexible/tasks/snippets_test.py, run by pytest
    tskRan,       \* the tests run so far, in order, each with its verdict
    tskQueues,    \* the queues the Cloud Tasks service holds
    tskCreated,   \* the queues the tests have created
    tskOps,       \* the requests the tests made of the service, in order
    \* cloud_tasks/http_queues/update_http_queue_test.py, run by pytest
    hqPc,         \* "setup", "body", "teardown" or "done"
    hqName,       \* the uuid the fixture names its queue with
    hqQueue,      \* the name of the Queue create_queue returned
    hqService,    \* the queues the Cloud Tasks service holds
    hqOps,        \* the requests made of the service, in order
    hqVerdict,    \* "none", "passed", "failed", or "error" when setup raised
    hqStdout,     \* the lines the fixture's teardown printed
    hqExc,        \* the exception that left the fixture's teardown
    \* datalabeling/*_test.py: a call under @backoff.on_exception
    bkPc,         \* "calling", "sleeping", "returned" or "raised"
    bkMaxTime,    \* the decorator's max_time, in clock ticks
    bkNow,        \* the clock, in ticks since the wrapper was entered
    bkElapsed,    \* the elapsed time the wrapper read before the current attempt
    bkOutcomes,   \* what each attempt of the wrapped call did, in order
    bkWait,       \* the time the wrapper sleeps before the next attempt
    bkRet,        \* what the wrapper returned
    bkExc,        \* the exception that left the wrapper
    \* dataflow/flex-templates/streaming_beam/streaming_beam_test.py
    sbPos,        \* the statement of lines 91-103 the test is at; 0 when idle
    sbEvents,     \* the statements of lines 91-103 the test has executed, in order
    sbClock,      \* seconds since the test reached line 91
    sbWaited,     \* seconds the test has spent inside pipeline_process.join
    sbPub,        \* publish_process: "new", "running", "ended" or "terminated"
    sbPubPc,      \* where _infinite_publish_job is: "publish" or "sleep"
    sbPubExc,     \* the exception that ended _infinite_publish_job
    sbPublished,  \* the messages published so far
    sbPipe,       \* pipeline_process: "new", "running", "ended" or "terminated"
    \* firestore/cloud-async-client/snippets.py: await delete_collection(...)
    dcPc,         \* "start", "loop" or "done" (the await has completed)
    dcBatch,      \* batch_size
    dcColl,       \* the documents the collection holds
    dcDocs,       \* the documents of the stream not yet iterated
    dcDeleted,    \* deleted, the counter of the call
    dcCalls,      \* how many times the body of delete_collection has run
    dcRet,        \* what the awaited call returned
    \* composer/.../dags/data_orchestration_blog_sample_dag.py: one DAG run
    dgState,      \* the state of each task instance of the run
    dgStarted,    \* the tasks that started to execute, in order
    dgPokes,      \* the pokes the sensor has made
    dgObjectAt,   \* the poke at which the object exists in the bucket
    dgRows,       \* the COUNT(*) the check query returns
    dgAlerts,     \* the failed tasks on_failure_callback ran for, in order
    \* run/events-pubsub/main.py: the module is imported, index() serves a request
    psPc,         \* "import", "serving", "answered", "raised" or "syntax_error"
    psPep701,     \* the interpreter takes a quote of the string's kind inside an f-string field
    psFromHttp,   \* what from_http did: "event", or the exception it raised
    psEvent,      \* the CloudEvent from_http returned
    psResp,       \* the response index() returned
    psExc,        \* the exception that left index()
    psStdout,     \* the lines index() printed
    \* datalabeling/create_annotation_spec_set_test.py, run by pytest
    clPc,         \* "calling", "returned", "teardown" or "done"
    clElapsed,    \* the time the backoff wrapper read before the current attempt
    clAttempts,   \* the attempts of the sample call made so far
    clService,    \* the annotation spec sets the service holds
    clCreated,    \* the annotation spec sets the test's calls created
    clResponse,   \* the name in the response run_sample() returned
    clNames,      \* resource_names, the list the cleaner fixture yields
    clDeleted,    \* the names the teardown loop has asked the service to delete
    clVerdict,    \* "none", "passed" or "failed"
    clExc         \* the exception that left the fixture's teardown

varsTpl == <<tplPc, tplName, tplOp, tplCalls, tplStderr, tplWait, tplRet, tplExc>>

varsSmp == <<smpFn, smpPc, smpAttempt, smpCalls, smpRaised, smpOutcome, smpExc>>

varsRtr == <<rtrPc, rtrEnv, rtrHandlers, rtrResp>>

varsIp == <<ipPc, ipArgs, ipStore, ipCalls, ipGot, ipRet, ipExc>>

varsVis == <<visPc, visArgv, visArgs, visCalled, visErr>>

varsVid == <<vidPc, vidArgv, vidCalled, vidErr>>

varsTsk == <<tskRan, tskQueues, tskCreated, tskOps>>

varsHq == <<hqPc, hqName, hqQueue, hqService, hqOps, hqVerdict, hqStdout, hqExc>>

varsBk == <<bkPc, bkMaxTime, bkNow, bkElapsed, bkOutcomes, bkWait, bkRet, bkExc>>

varsSb == <<sbPos, sbEvents, sbClock, sbWaited, sbPub, sbPubPc, sbPubExc, sbPublished, sbPipe>>

varsDc == <<dcPc, dcBatch, dcColl, dcDocs, dcDeleted, dcCalls, dcRet>>

varsDg == <<dgState, dgStarted, dgPokes, dgObjectAt, dgRows, dgAlerts>>

varsPs == <<psPc, psPep701, psFromHttp, psEvent, psResp, psExc, psStdout>>

varsCl == <<clPc, clElapsed, clAttempts, clService, clCreated, clResponse, clNames, clDeleted, clVerdict, clExc>>

vars == <<varsTpl, varsSmp, varsRtr, varsIp, varsVis, varsVid, varsTsk, varsHq, varsBk, varsSb, varsDc, varsDg, varsPs, varsCl>>

\* what each machine leaves alone
notTpl == <<varsSmp, varsRtr, varsIp, varsVis, varsVid, varsTsk, varsHq, varsBk, varsSb, varsDc, varsDg, varsPs, varsCl>>
notSmp == <<varsTpl, varsRtr, varsIp, varsVis, varsVid, varsTsk, varsHq, varsBk, varsSb, varsDc, varsDg, varsPs, varsCl>>
notRtr == <<varsTpl, varsSmp, varsIp, varsVis, varsVid, varsTsk, varsHq, varsBk, varsSb, varsDc, varsDg, varsPs, varsCl>>
notIp == <<varsTpl, varsSmp, varsRtr, varsVis, varsVid, varsTsk, varsHq, varsBk, varsSb, varsDc, varsDg, varsPs, varsCl>>
notVis == <<varsTpl, varsSmp, varsRtr, varsIp, varsVid, varsTsk, varsHq, varsBk, varsSb, varsDc, varsDg, varsPs, varsCl>>
notVid == <<varsTpl, varsSmp, varsRtr, varsIp, varsVis, varsTsk, varsHq, varsBk, varsSb, varsDc, varsDg, varsPs, varsCl>>
notTsk == <<varsTpl, varsSmp, varsRtr, varsIp, varsVis, varsVid, varsHq, varsBk, varsSb, varsDc, varsDg, varsPs, varsCl>>
notHq == <<varsTpl, varsSmp, varsRtr, varsIp, varsVis, varsVid, varsTsk, varsBk, varsSb, varsDc, varsDg, varsPs, varsCl>>
notBk == <<varsTpl, varsSmp, varsRtr, varsIp, varsVis, varsVid, varsTsk, varsHq, varsSb, varsDc, varsDg, varsPs, varsCl>>
notSb == <<varsTpl, varsSmp, varsRtr, varsIp, varsVis, varsVid, varsTsk, varsHq, varsBk, varsDc, varsDg, varsPs, varsCl>>
notDc == <<varsTpl, varsSmp, varsRtr, varsIp, varsVis, varsVid, varsTsk, varsHq, varsBk, varsSb, varsDg, varsPs, varsCl>>
notDg == <<varsTpl, varsSmp, varsRtr, varsIp, varsVis, varsVid, varsTsk, varsHq, varsBk, varsSb, varsDc, varsPs, varsCl>>
notPs == <<varsTpl, varsSmp, varsRtr, varsIp, varsVis, varsVid, varsTsk, varsHq, varsBk, varsSb, varsDc, varsDg, varsCl>>
notCl == <<varsTpl, varsSmp, varsRtr, varsIp, varsVis, varsVid, varsTsk, varsHq, varsBk, varsSb, varsDc, varsDg, varsPs>>

-----------------------------------------------------------------------------
(* Values shared by the machines *)

\* Python's None where an exception object is expected
NoExc == [type |-> "None", msg |-> ""]

Exc(t, m) == [type |-> t, msg |-> m]

-----------------------------------------------------------------------------
(* compute/client_library/snippets/instance_templates/create_with_subnet.py *)

MaxWarnings == 2

TemplateNames == {"tpl-a", "tpl-b"}
ErrorCodes == {0, 404, 500}
ErrorMessages == {"", "quota exceeded"}
OpExceptions == {NoExc, Exc("NotFound", "gone"), Exc("InternalServerError", "boom")}
Warnings == {[code |-> "DEPRECATED_RESOURCE_USED", message |-> "old image"],
             [code |-> "NO_RESULTS_ON_PAGE", message |-> "empty"]}
ResultValues == {"None", "payload"}
\* what operation.result(timeout=...) does: return a value, raise the
\* operation's exception, or raise concurrent.futures.TimeoutError
ResultOutcomes == {"returns", "raises", "timeout"}

SeqsUpTo(S, n) == UNION {[1..k -> S] : k \in 0..n}

Operations ==
    [name : {"operation-1"},
     error_code : ErrorCodes,
     error_message : ErrorMessages,
     exception : OpExceptions,
     warnings : SeqsUpTo(Warnings, MaxWarnings),
     outcome : ResultOutcomes,
     value : ResultValues]

NoOp == [name |-> "", error_code |-> 0, error_message |-> "", exception |-> NoExc,
         warnings |-> <<>>, outcome |-> "returns", value |-> "None"]

Line(k, n, c, t) == [kind |-> k, name |-> n, code |-> c, text |-> t]

\* line 58: result = operation.result(timeout=timeout)
OperationResult(op) ==
    CASE op.outcome = "timeout" -> [kind |-> "raise", exc |-> Exc("TimeoutError", ""), value |-> "None"]
      [] op.outcome = "raises" /\ op.exception # NoExc ->
            [kind |-> "raise", exc |-> op.exception, value |-> "None"]
      [] OTHER -> [kind |-> "return", exc |-> NoExc, value |-> op.value]

\* lines 69-72: the warnings go to sys.stderr
WarningLines(op, verbose_name) ==
    IF Len(op.warnings) > 0
    THEN <<Line("warnings", verbose_name, 0, "")>> \o
         [i \in 1..Len(op.warnings) |->
            Line("warning", op.warnings[i].code, 0, op.warnings[i].message)]
    ELSE <<>>

\* lines 61-67: the error report and the exception raised
ErrorLines(op, verbose_name) ==
    <<Line("error", verbose_name, op.error_code, op.error_message),
      Line("operation id", op.name, 0, "")>>

\* a variant that forgets operation.exception()
ErrorRaised_onlyRuntimeError(op) == Exc("RuntimeError", op.error_message)

\* line 67: raise operation.exception() or RuntimeError(operation.error_message)
ErrorRaised(op) ==
    IF op.exception # NoExc THEN op.exception ELSE Exc("RuntimeError", op.error_message)

\* a variant that treats a warning as an error
wait_for_extended_operation_strict(op, verbose_name) ==
    LET r == OperationResult(op) IN
    IF r.kind = "raise"
    THEN [kind |-> "raise", exc |-> r.exc, value |-> "None", stderr |-> <<>>]
    ELSE IF op.error_code # 0 \/ Len(op.warnings) > 0
    THEN [kind |-> "raise", exc |-> ErrorRaised(op), value |-> "None",
          stderr |-> ErrorLines(op, verbose_name)]
    ELSE [kind |-> "return", exc |-> NoExc, value |-> r.value, stderr |-> <<>>]

\* wait_for_extended_operation(operation, verbose_name): how it ends and what
\* it prints
wait_for_extended_operation(op, verbose_name) ==
    LET r == OperationResult(op) IN
    IF r.kind = "raise"
    THEN [kind |-> "raise", exc |-> r.exc, value |-> "None", stderr |-> <<>>]
    ELSE IF op.error_code # 0
    THEN [kind |-> "raise", exc |-> ErrorRaised(op), value |-> "None",
          stderr |-> ErrorLines(op, verbose_name)]
    ELSE [kind |-> "return", exc |-> NoExc, value |-> r.value,
          stderr |-> WarningLines(op, verbose_name)]

NotWaited == [kind |-> "none", exc |-> NoExc, value |-> "None", stderr |-> <<>>]

Call(api, name) == [api |-> api, name |-> name]

\* lines 118-121: template_client.insert(...) returns the operation, or raises
TplInsert ==
    /\ tplPc = "start"
    /\ tplCalls' = Append(tplCalls, Call("insert", tplName))
    /\ \/ \E op \in Operations :
            /\ tplOp' = op
            /\ tplPc' = "wait"
            /\ tplExc' = tplExc
       \/ \E e \in {Exc("Conflict", "exists"), Exc("Forbidden", "no access")} :
            /\ tplOp' = tplOp
            /\ tplPc' = "raised"
            /\ tplExc' = e
    /\ UNCHANGED <<tplName, tplStderr, tplWait, tplRet>>
    /\ UNCHANGED notTpl

\* a variant that goes on to the get whatever the wait did
TplWait_ignoresRaise ==
    /\ tplPc = "wait"
    /\ LET w == wait_for_extended_operation(tplOp, "instance template creation") IN
        /\ tplWait' = w
        /\ tplCalls' = Append(tplCalls, Call("result", tplOp.name))
        /\ tplStderr' = tplStderr \o w.stderr
        /\ tplPc' = "get"
        /\ tplExc' = tplExc
    /\ UNCHANGED <<tplName, tplOp, tplRet>>
    /\ UNCHANGED notTpl

\* line 122: wait_for_extended_operation(operation, "instance template creation")
TplWait ==
    /\ tplPc = "wait"
    /\ LET w == wait_for_extended_operation(tplOp, "instance template creation") IN
        /\ tplWait' = w
        /\ tplCalls' = Append(tplCalls, Call("result", tplOp.name))
        /\ tplStderr' = tplStderr \o w.stderr
        /\ IF w.kind = "raise"
           THEN tplPc' = "raised" /\ tplExc' = w.exc
           ELSE tplPc' = "get" /\ tplExc' = tplExc
    /\ UNCHANGED <<tplName, tplOp, tplRet>>
    /\ UNCHANGED notTpl

\* line 124: return template_client.get(project=..., instance_template=template_name)
TplGet ==
    /\ tplPc = "get"
    /\ tplCalls' = Append(tplCalls, Call("get", tplName))
    /\ \/ /\ tplPc' = "done"
          /\ tplRet' = tplName
          /\ tplExc' = tplExc
       \/ /\ tplPc' = "raised"
          /\ tplRet' = tplRet
          /\ tplExc' = Exc("NotFound", "template")
    /\ UNCHANGED <<tplName, tplOp, tplStderr, tplWait>>
    /\ UNCHANGED notTpl

NextTpl == TplInsert \/ TplWait \/ TplGet

-----------------------------------------------------------------------------
(* The sample functions and the exceptions of their library calls.  A row  *)
(* lists the library calls of the function body in order, with the         *)
(* exceptions each can raise; catches holds the exceptions an except       *)
(* clause of the function turns into a normal return; reinvokeOn holds the *)
(* exceptions after which a decorator applied to the function invokes its  *)
(* body again, and exhausted the exception the decorator raises when it    *)
(* gives up.                                                               *)

MaxAttempts == 3

Step(c, r) == [call |-> c, raises |-> r]

CloudEventErrors == {"MissingRequiredFields", "InvalidStructuredJSON", "InvalidRequiredFields"}

\* google.api_core.retry.if_transient_error, the predicate of retry.Retry()
TransientErrors == {"InternalServerError", "TooManyRequests", "ServiceUnavailable"}

\* eventarc/storage_handler/main.py: index
Fn_storage_index ==
    [name |-> "storage_handler.index",
     steps |-> <<Step("from_http", CloudEventErrors),
                 Step("StorageObjectData", {"TypeError"})>>,
     catches |-> {}, reinvokeOn |-> {}, exhausted |-> "None"]

\* run/events-pubsub/main.py: index
Fn_pubsub_index ==
    [name |-> "events_pubsub.index",
     steps |-> <<Step("from_http", CloudEventErrors \cup {"DataUnmarshallerError"}),
                 Step("b64decode", {"binascii.Error", "UnicodeDecodeError"})>>,
     catches |-> CloudEventErrors, reinvokeOn |-> {}, exhausted |-> "None"]

\* containeranalysis/snippets/delete_occurrence.py
Fn_delete_occurrence ==
    [name |-> "delete_occurrence",
     steps |-> <<Step("get_grafeas_client", {}),
                 Step("grafeas.delete_occurrence", {"NotFound", "PermissionDenied"})>>,
     catches |-> {}, reinvokeOn |-> {}, exhausted |-> "None"]

\* discoveryengine/get_operation_sample.py
Fn_get_operation_sample ==
    [name |-> "get_operation_sample",
     steps |-> <<Step("get_operation", {"NotFound"})>>,
     catches |-> {}, reinvokeOn |-> {}, exhausted |-> "None"]

\* vmwareengine/cloud-client/cancel_private_cloud_deletion.py
Fn_cancel_private_cloud_deletion ==
    [name |-> "cancel_private_cloud_deletion",
     steps |-> <<Step("undelete_private_cloud", {"NotFound", "FailedPrecondition"})>>,
     catches |-> {}, reinvokeOn |-> {}, exhausted |-> "None"]

\* iam/cloud-client/snippets/disable_service_account.py
Fn_disable_service_account ==
    [name |-> "disable_service_account",
     steps |-> <<Step("iam.disable_service_account", {"NotFound"}),
                 Step("iam.get_service_account", {"NotFound"})>>,
     catches |-> {}, reinvokeOn |-> {}, exhausted |-> "None"]

\* iam/cloud-client/snippets/list_service_accounts.py
Fn_list_service_accounts ==
    [name |-> "list_service_accounts",
     steps |-> <<Step("iam.list_service_accounts", {"PermissionDenied"})>>,
     catches |-> {}, reinvokeOn |-> {}, exhausted |-> "None"]

\* people-and-planet-ai/land-cover-classification/batch_predict.py: get_patch
\* under @retry.Retry(); requests.get stands for lines 80-83, where a 429
\* becomes TooManyRequests and any other error status an HTTPError
Fn_get_patch ==
    [name |-> "get_patch",
     steps |-> <<Step("ee.getDownloadURL", {"EEException"}),
                 Step("requests.get", {"ConnectionError", "TooManyRequests", "HTTPError"}),
                 Step("np.load", {"ValueError"})>>,
     catches |-> {}, reinvokeOn |-> TransientErrors, exhausted |-> "RetryError"]

\* firestore/cloud-async-client/snippets.py: update_in_transaction under
\* @firestore.async_transactional, which commits after the body
Fn_update_in_transaction ==
    [name |-> "update_in_transaction",
     steps |-> <<Step("city_ref.get", {"NotFound"}),
                 Step("transaction.commit", {"Aborted", "PermissionDenied"})>>,
     catches |-> {}, reinvokeOn |-> {"Aborted"}, exhausted |-> "ValueError"]

\* auth/api-client/restrict_api_key_server.py
Fn_restrict_api_key_server ==
    [name |-> "restrict_api_key_server",
     steps |-> <<Step("update_key", {"NotFound", "PermissionDenied"}),
                 Step("operation.result", {"GoogleAPICallError"})>>,
     catches |-> {}, reinvokeOn |-> {}, exhausted |-> "None"]

\* endpoints/bookstore-grpc/bookstore_client.py: run
Fn_bookstore_run ==
    [name |-> "bookstore_client.run",
     steps |-> <<Step("insecure_channel", {}),
                 Step("ListShelves", {"AbortionError", "ExpirationError"})>>,
     catches |-> {}, reinvokeOn |-> {}, exhausted |-> "None"]

\* generative_ai/gemini_grounding_example_with_vais.py
Fn_generate_text_with_grounding ==
    [name |-> "generate_text_with_grounding",
     steps |-> <<Step("vertexai.init", {}),
                 Step("generate_content", {"InvalidArgument", "ResourceExhausted"})>>,
     catches |-> {}, reinvokeOn |-> {}, exhausted |-> "None"]

\* vision/cloud-client/detect/vision_batch_annotate_files_gcs.py
Fn_sample_batch_annotate_files ==
    [name |-> "sample_batch_annotate_files",
     steps |-> <<Step("batch_annotate_files", {"InvalidArgument", "ServiceUnavailable"})>>,
     catches |-> {}, reinvokeOn |-> {}, exhausted |-> "None"]

\* jobs/v2/api_client/commute_search_sample.py: run_sample, with the
\* commute_search it calls
Fn_commute_run_sample ==
    [name |-> "commute_search_sample.run_sample",
     steps |-> <<Step("create_company", {"HttpError"}),
                 Step("create_job", {"HttpError"}),
                 Step("jobs.search.execute", {"HttpError"}),
                 Step("delete_job", {"HttpError"}),
                 Step("delete_company", {"HttpError"})>>,
     catches |-> {}, reinvokeOn |-> {}, exhausted |-> "None"]

\* compute/client_library/ingredients/instances/ip_address/get_static_ip_address.py
Fn_get_static_ip_address ==
    [name |-> "get_static_ip_address",
     steps |-> <<Step("addresses.get", {"NotFound"})>>,
     catches |-> {}, reinvokeOn |-> {}, exhausted |-> "None"]

\* compute/client_library/snippets/instance_templates/create_with_subnet.py
Fn_create_template_with_subnet ==
    [name |-> "create_template_with_subnet",
     steps |-> <<Step("instance_templates.insert", {"Conflict", "Forbidden"}),
                 Step("operation.result", {"TimeoutError", "RuntimeError", "NotFound"}),
                 Step("instance_templates.get", {"NotFound"})>>,
     catches |-> {}, reinvokeOn |-> {}, exhausted |-> "None"]

SampleFns ==
    {Fn_storage_index, Fn_pubsub_index, Fn_delete_occurrence, Fn_get_operation_sample,
     Fn_cancel_private_cloud_deletion, Fn_disable_service_account,
     Fn_list_service_accounts, Fn_get_patch, Fn_update_in_transaction,
     Fn_restrict_api_key_server, Fn_bookstore_run, Fn_generate_text_with_grounding,
     Fn_sample_batch_annotate_files, Fn_commute_run_sample, Fn_get_static_ip_address,
     Fn_create_template_with_subnet}

NoFn == [name |-> "None", steps |-> <<>>, catches |-> {}, reinvokeOn |-> {},
         exhausted |-> "None"]

\* the next library call returns; after the last one the function returns
SmpCallReturns ==
    /\ smpOutcome = "running"
    /\ smpPc <= Len(smpFn.steps)
    /\ smpCalls' = Append(smpCalls, smpFn.steps[smpPc].call)
    /\ smpPc' = smpPc + 1
    /\ smpOutcome' = IF smpPc = Len(smpFn.steps) THEN "returned" ELSE "running"
    /\ UNCHANGED <<smpFn, smpAttempt, smpRaised, smpExc>>
    /\ UNCHANGED notSmp

\* a variant whose except clause is `except Exception`
Disposition_catchAll(fn, e, attempt, deadlinePassed) ==
    IF fn.catches # {} THEN [outcome |-> "handled", exc |-> "None", again |-> FALSE]
    ELSE IF e \in fn.reinvokeOn
    THEN IF attempt < MaxAttempts /\ ~deadlinePassed
         THEN [outcome |-> "running", exc |-> "None", again |-> TRUE]
         ELSE [outcome |-> "raised", exc |-> fn.exhausted, again |-> FALSE]
    ELSE [outcome |-> "raised", exc |-> e, again |-> FALSE]

\* a variant whose decorators invoke the body again after any exception
Disposition_retriesAnything(fn, e, attempt, deadlinePassed) ==
    IF e \in fn.catches THEN [outcome |-> "handled", exc |-> "None", again |-> FALSE]
    ELSE IF fn.reinvokeOn # {}
    THEN IF attempt < MaxAttempts /\ ~deadlinePassed
         THEN [outcome |-> "running", exc |-> "None", again |-> TRUE]
         ELSE [outcome |-> "raised", exc |-> fn.exhausted, again |-> FALSE]
    ELSE [outcome |-> "raised", exc |-> e, again |-> FALSE]

\* what becomes of exception e raised in the function body: an except clause
\* of the function handles it, a decorator invokes the body again or gives
\* up, or it leaves the function
Disposition(fn, e, attempt, deadlinePassed) ==
    IF e \in fn.catches THEN [outcome |-> "handled", exc |-> "None", again |-> FALSE]
    ELSE IF e \in fn.reinvokeOn
    THEN IF attempt < MaxAttempts /\ ~deadlinePassed
         THEN [outcome |-> "running", exc |-> "None", again |-> TRUE]
         ELSE [outcome |-> "raised", exc |-> fn.exhausted, again |-> FALSE]
    ELSE [outcome |-> "raised", exc |-> e, again |-> FALSE]

\* the next library call raises
SmpCallRaises ==
    /\ smpOutcome = "running"
    /\ smpPc <= Len(smpFn.steps)
    /\ \E e \in smpFn.steps[smpPc].raises, deadlinePassed \in BOOLEAN :
        LET d == Disposition(smpFn, e, smpAttempt, deadlinePassed) IN
        /\ smpCalls' = Append(smpCalls, smpFn.steps[smpPc].call)
        /\ smpRaised' = Append(smpRaised, e)
        /\ smpOutcome' = d.outcome
        /\ smpExc' = d.exc
        /\ smpPc' = IF d.again THEN 1 ELSE smpPc
        /\ smpAttempt' = IF d.again THEN smpAttempt + 1 ELSE smpAttempt
    /\ UNCHANGED smpFn
    /\ UNCHANGED notSmp

NextSmp == SmpCallReturns \/ SmpCallRaises

-----------------------------------------------------------------------------
(* appengine/python3-wormhole-samples/blobstore/wsgi/main.py                *)
(* A path is a sequence of tokens: "/", a newline, the two words the       *)
(* routes name, and "x" for any other character.                           *)

MaxPathLen == 4

PathTokens == {"/", "\n", "upload_photo", "view_photo", "x"}

Paths == SeqsUpTo(PathTokens, MaxPathLen)

\* str.lstrip('/')
RECURSIVE lstrip(_)
lstrip(p) == IF p # <<>> /\ Head(p) = "/" THEN lstrip(Tail(p)) ELSE p

\* `$` matches after position k: at the end, or before a final newline
AtEnd(p, k) == k = Len(p) \/ (k = Len(p) - 1 /\ p[Len(p)] = "\n")

\* re.search(r'^$', p)
SearchEmpty(p) == AtEnd(p, 0)

\* re.search(r'upload_photo/?$', p)
SearchUpload(p) ==
    \E i \in 1..Len(p) :
        /\ p[i] = "upload_photo"
        /\ \/ AtEnd(p, i)
           \/ i < Len(p) /\ p[i + 1] = "/" /\ AtEnd(p, i + 1)

\* where `view_photo/(.+)$` can match: from token i, the group ending at k
ViewMatch(p, i, k) ==
    /\ i + 2 <= k
    /\ k <= Len(p)
    /\ p[i] = "view_photo"
    /\ p[i + 1] = "/"
    /\ \A m \in (i + 2)..k : p[m] # "\n"
    /\ AtEnd(p, k)

\* re.search(r'view_photo/(.+)$', p)
SearchView(p) == \E i \in 1..Len(p), k \in 1..Len(p) : ViewMatch(p, i, k)

\* match.groups() of the above: the leftmost match, its group the longest
ViewGroups(p) ==
    LET i == CHOOSE a \in 1..Len(p) :
                /\ \E k \in 1..Len(p) : ViewMatch(p, a, k)
                /\ \A b \in 1..(a - 1) : ~ \E k \in 1..Len(p) : ViewMatch(p, b, k)
        k == CHOOSE c \in 1..Len(p) :
                /\ ViewMatch(p, i, c)
                /\ \A d \in (c + 1)..Len(p) : ~ViewMatch(p, i, d)
    IN <<SubSeq(p, i + 2, k)>>

\* lines 52-56: urls
urls ==
    <<[regex |-> "^$", handler |-> "UploadFormHandler"],
      [regex |-> "upload_photo/?$", handler |-> "UploadPhotoHandler"],
      [regex |-> "view_photo/(.+)$", handler |-> "ViewPhotoHandler"]>>

\* re.search(regex, path) is not None
Search(regex, p) ==
    CASE regex = "^$" -> SearchEmpty(p)
      [] regex = "upload_photo/?$" -> SearchUpload(p)
      [] regex = "view_photo/(.+)$" -> SearchView(p)

\* match.groups()
Groups(regex, p) == IF regex = "view_photo/(.+)$" THEN ViewGroups(p) ELSE <<>>

Response(st, ct) == [kind |-> "response", status |-> st, ctype |-> ct]
Raised == [kind |-> "raise", status |-> "", ctype |-> ""]
NoResponse == [kind |-> "none", status |-> "", ctype |-> ""]

\* what calling an instance of the handler class can do
HandlerResults(h) ==
    CASE h = "UploadFormHandler" -> {Response("200 OK", "text/html")}
      [] h = "UploadPhotoHandler" -> {Response("302 Found", ""), Raised}
      [] h = "ViewPhotoHandler" ->
            {Response("200 OK", "blob"), Response("404 Not Found", ""), Raised}

\* lines 62-64: not_found
not_found == Response("404 Not Found", "text/plain")

\* a variant of the loop that lets a later route override an earlier one
RouteFor_lastMatch(routes, p) ==
    IF \E i \in 1..Len(routes) : Search(routes[i].regex, p)
    THEN CHOOSE i \in 1..Len(routes) :
            /\ Search(routes[i].regex, p)
            /\ \A j \in (i + 1)..Len(routes) : ~Search(routes[j].regex, p)
    ELSE 0

\* lines 69-71: the index of the route the loop stops at, 0 when it runs out
RECURSIVE RouteFrom(_, _, _)
RouteFrom(routes, p, i) ==
    IF i > Len(routes) THEN 0
    ELSE IF Search(routes[i].regex, p) THEN i
    ELSE RouteFrom(routes, p, i + 1)

RouteFor(routes, p) == RouteFrom(routes, p, 1)

NoEnv == [has_path |-> FALSE, PATH_INFO |-> <<>>, url_args |-> <<>>, has_args |-> FALSE]

\* the server hands a request to app: an environ with or without PATH_INFO
RtrRequest ==
    /\ rtrPc = "waiting"
    /\ \/ \E p \in Paths :
            rtrEnv' = [has_path |-> TRUE, PATH_INFO |-> p, url_args |-> <<>>,
                       has_args |-> FALSE]
       \/ rtrEnv' = NoEnv
    /\ rtrPc' = "request"
    /\ rtrHandlers' = <<>>
    /\ rtrResp' = NoResponse
    /\ UNCHANGED notRtr

\* lines 66-76: Application.__call__
RtrCall ==
    /\ rtrPc = "request"
    /\ LET path == lstrip(IF rtrEnv.has_path THEN rtrEnv.PATH_INFO ELSE <<>>)
           r == RouteFor(urls, path)
       IN IF r # 0
          THEN /\ rtrEnv' = [rtrEnv EXCEPT !.url_args = Groups(urls[r].regex, path),
                                           !.has_args = TRUE]
               /\ rtrHandlers' = Append(rtrHandlers, urls[r].handler)
               /\ rtrResp' \in HandlerResults(urls[r].handler)
          ELSE /\ rtrEnv' = rtrEnv
               /\ rtrHandlers' = rtrHandlers
               /\ rtrResp' = not_found
    /\ rtrPc' = "called"
    /\ UNCHANGED notRtr

NextRtr == RtrRequest \/ RtrCall

-----------------------------------------------------------------------------
(* compute/client_library/ingredients/instances/ip_address/get_static_ip_address.py *)

Projects == {"project-1"}
AddressNames == {"addr-a", "addr-b"}
RegionNames == {"us-central1", "europe-west1"}
\* the region argument: "None" stands for Python's None
RegionArgs == {"None", ""} \cup RegionNames

\* an Address of the service; region "global" for a global address
Addresses == [project : Projects, region : RegionNames \cup {"global"}, name : AddressNames]

NoAddress == [project |-> "", region |-> "", name |-> ""]

\* a get request: the client class it goes through and its keyword arguments
GetCall(c, p, r, a) == [client |-> c, project |-> p, region |-> r, address |-> a]

\* a variant that always asks the global client
AddressRequest_alwaysGlobal(project_id, address_name, region) ==
    GetCall("GlobalAddressesClient", project_id, "absent", address_name)

\* lines 39-46: the request get_static_ip_address issues
AddressRequest(project_id, address_name, region) ==
    IF region \notin {"None", ""}
    THEN GetCall("AddressesClient", project_id, region, address_name)
    ELSE GetCall("GlobalAddressesClient", project_id, "absent", address_name)

\* client.get: the Address of the store, or NotFound
ClientGet(store, call) ==
    LET key == [project |-> call.project,
                region |-> IF call.client = "GlobalAddressesClient" THEN "global"
                           ELSE call.region,
                name |-> call.address]
    IN IF key \in store
       THEN [kind |-> "return", value |-> key, exc |-> "None"]
       ELSE [kind |-> "raise", value |-> NoAddress, exc |-> "NotFound"]

NoGet == [kind |-> "none", value |-> NoAddress, exc |-> "None"]

\* lines 23-48: get_static_ip_address
IpGet ==
    /\ ipPc = "start"
    /\ LET call == AddressRequest(ipArgs.project_id, ipArgs.address_name, ipArgs.region)
           got == ClientGet(ipStore, call)
       IN /\ ipCalls' = Append(ipCalls, call)
          /\ ipGot' = got
          /\ ipRet' = IF got.kind = "return" THEN got.value ELSE ipRet
          /\ ipExc' = IF got.kind = "raise" THEN got.exc ELSE ipExc
    /\ ipPc' = "done"
    /\ UNCHANGED <<ipArgs, ipStore>>
    /\ UNCHANGED notIp

NextIp == IpGet

-----------------------------------------------------------------------------
(* vision/cloud-client/detect/beta_snippets.py                             *)
(* A subcommand is a sequence of tokens, so that `x in args.command` is a  *)
(* substring test: no word of the commands contains "uri" or another word. *)

ObjectLocalization == <<"object-localization">>
ObjectLocalizationUri == <<"object-localization", "-", "uri">>
HandwrittenOcr == <<"handwritten-ocr">>
HandwrittenOcrUri == <<"handwritten-ocr", "-", "uri">>
DocFeatures == <<"doc-features">>
DocFeaturesUri == <<"doc-features", "-", "uri">>

\* lines 276-298: the subparsers, each with the name of its one argument
VisParsers ==
    <<[command |-> ObjectLocalization, dest |-> "path"],
      [command |-> ObjectLocalizationUri, dest |-> "uri"],
      [command |-> HandwrittenOcr, dest |-> "path"],
      [command |-> HandwrittenOcrUri, dest |-> "uri"],
      [command |-> DocFeatures, dest |-> "path"],
      [command |-> DocFeaturesUri, dest |-> "uri"]>>

VisCommands == {VisParsers[i].command : i \in 1..Len(VisParsers)}

\* command lines: a registered subcommand, an unknown one, or none; with an
\* argument or without
NoCommand == <<>>
CliValues == {"image.jpg", "scan.png", "doc.pdf", "cat.mp4", "gs://bucket/image.jpg",
              "gs://bucket/doc.pdf", "gs://bucket/video.mp4", "missing"}
VisArgvs == [command : VisCommands \cup {<<"labels">>, NoCommand}, value : CliValues]

\* Python's `needle in haystack` on strings
Contains(haystack, needle) ==
    \E i \in 0..(Len(haystack) - Len(needle)) :
        \A k \in 1..Len(needle) : haystack[i + k] = needle[k]

\* a Namespace: an attribute the subparser does not define is absent
Absent == "<absent>"
NoArgs == [command |-> NoCommand, has_command |-> FALSE, path |-> Absent, uri |-> Absent]

\* line 300: parser.parse_args()
VisParseArgs(argv) ==
    IF argv.command = NoCommand
    THEN [kind |-> "ok", args |-> NoArgs]
    ELSE IF \E i \in 1..Len(VisParsers) : VisParsers[i].command = argv.command
    THEN LET sp == CHOOSE x \in {VisParsers[i] : i \in 1..Len(VisParsers)} :
                        x.command = argv.command
         IN IF argv.value = "missing"
            THEN [kind |-> "SystemExit", args |-> NoArgs]
            ELSE [kind |-> "ok",
                  args |-> [command |-> argv.command, has_command |-> TRUE,
                            path |-> IF sp.dest = "path" THEN argv.value ELSE Absent,
                            uri |-> IF sp.dest = "uri" THEN argv.value ELSE Absent]]
    ELSE [kind |-> "SystemExit", args |-> NoArgs]

\* a call f(args.attr): AttributeError when the Namespace lacks attr
CallWith(f, value) ==
    IF value = Absent
    THEN [called |-> <<>>, err |-> "AttributeError"]
    ELSE [called |-> <<[fn |-> f, arg |-> value]>>, err |-> "None"]

Nothing == [called |-> <<>>, err |-> "None"]

\* lines 302-315: the dispatch on args.command
VisDispatch(args) ==
    IF ~args.has_command THEN [called |-> <<>>, err |-> "TypeError"]
    ELSE IF Contains(args.command, <<"uri">>)
    THEN IF Contains(args.command, ObjectLocalizationUri)
         THEN CallWith("localize_objects_uri", args.uri)
         ELSE IF Contains(args.command, HandwrittenOcrUri)
         THEN CallWith("detect_handwritten_ocr_uri", args.uri)
         ELSE IF Contains(args.command, DocFeatures)
         THEN CallWith("detect_handwritten_ocr_uri", args.uri)
         ELSE Nothing
    ELSE IF Contains(args.command, ObjectLocalization)
         THEN CallWith("localize_objects", args.path)
         ELSE IF Contains(args.command, HandwrittenOcr)
         THEN CallWith("detect_handwritten_ocr", args.path)
         ELSE IF Contains(args.command, DocFeatures)
         THEN CallWith("detect_handwritten_ocr", args.uri)
         ELSE Nothing

\* lines 271-300: the parser is built and the command line parsed
VisParse ==
    /\ visPc = "start"
    /\ LET r == VisParseArgs(visArgv) IN
        /\ visArgs' = r.args
        /\ visPc' = IF r.kind = "ok" THEN "parsed" ELSE "error"
        /\ visErr' = IF r.kind = "ok" THEN visErr ELSE r.kind
    /\ UNCHANGED <<visArgv, visCalled>>
    /\ UNCHANGED notVis

\* lines 302-315
VisRun ==
    /\ visPc = "parsed"
    /\ LET r == VisDispatch(visArgs) IN
        /\ visCalled' = visCalled \o r.called
        /\ visErr' = r.err
        /\ visPc' = IF r.err = "None" THEN "done" ELSE "error"
    /\ UNCHANGED <<visArgv, visArgs>>
    /\ UNCHANGED notVis

NextVis == VisParse \/ VisRun

-----------------------------------------------------------------------------
(* video/cloud-client/analyze/analyze.py *)

\* the functions the module defines (lines 36, 57, 136, 211, 232)
VidDefined ==
    {"analyze_explicit_content", "analyze_labels", "analyze_labels_file",
     "analyze_shots", "speech_transcription"}

\* lines 286-303: the subparsers, each built with help=<function>.__doc__
VidParsers ==
    <<[command |-> "labels", help |-> "analyze_labels"],
      [command |-> "labels_file", help |-> "analyze_labels_file"],
      [command |-> "explicit_content", help |-> "analyze_explicit_content"],
      [command |-> "shots", help |-> "analyze_shots"],
      [command |-> "transcribe", help |-> "speech_transcription"],
      [command |-> "transcribe_file", help |-> "speech_transcription_file"]>>

VidCommands == {VidParsers[i].command : i \in 1..Len(VidParsers)}

VidArgvs == [command : VidCommands \cup {"faces", "none"}, value : CliValues]

\* lines 282-303: building the parser evaluates each help expression; a name
\* the module does not define raises NameError
VidSetup(defined) ==
    IF \E i \in 1..Len(VidParsers) : VidParsers[i].help \notin defined
    THEN "NameError"
    ELSE "None"

\* line 305: parser.parse_args()
VidParseArgs(argv) ==
    IF argv.command = "none" THEN [kind |-> "ok", command |-> "None", path |-> Absent]
    ELSE IF argv.command \in VidCommands /\ argv.value # "missing"
    THEN [kind |-> "ok", command |-> argv.command, path |-> argv.value]
    ELSE [kind |-> "SystemExit", command |-> "None", path |-> Absent]

\* one `if args.command == c: f(args.path)` of lines 307-316
VidIf(args, c, f) ==
    IF args.command = c THEN <<[fn |-> f, arg |-> args.path]>> ELSE <<>>

\* lines 307-316: the five ifs in sequence
VidDispatch(args) ==
    VidIf(args, "labels", "analyze_labels")
    \o VidIf(args, "labels_file", "analyze_labels_file")
    \o VidIf(args, "shots", "analyze_shots")
    \o VidIf(args, "explicit_content", "analyze_explicit_content")
    \o VidIf(args, "transcribe", "speech_transcription")

\* lines 281-316: the script's __main__ block
VidMain ==
    /\ vidPc = "start"
    /\ LET setup == VidSetup(VidDefined)
           parsed == VidParseArgs(vidArgv)
       IN IF setup # "None"
          THEN vidErr' = setup /\ vidCalled' = vidCalled /\ vidPc' = "error"
          ELSE IF parsed.kind # "ok"
          THEN vidErr' = parsed.kind /\ vidCalled' = vidCalled /\ vidPc' = "error"
          ELSE /\ vidErr' = vidErr
               /\ vidCalled' = vidCalled \o VidDispatch(parsed)
               /\ vidPc' = "done"
    /\ UNCHANGED vidArgv
    /\ UNCHANGED notVid

NextVid == VidMain

-----------------------------------------------------------------------------
(* appengine/flexible/tasks/snippets_test.py                               *)

\* lines 23-24 and 99: the queue names, each a fresh uuid
QUEUE_NAME_1 == "queue-1"
QUEUE_NAME_2 == "queue-2"
QUEUE_NAME == <<"queue-r0", "queue-r1", "queue-r2">>

\* lines 26-96: the tests in file order, each with the number of its order mark
TaskTests ==
    <<[name |-> "test_create_queue", order |-> 1],
      [name |-> "test_update_queue", order |-> 2],
      [name |-> "test_create_task", order |-> 3],
      [name |-> "test_create_task_with_data", order |-> 4],
      [name |-> "test_create_task_with_name", order |-> 5],
      [name |-> "test_delete_task", order |-> 6],
      [name |-> "test_delete_queue", order |-> 8],
      [name |-> "test_retry_task", order |-> 7]>>

\* the order pytest runs the tests in when it honours the marks
Schedule ==
    [k \in 1..Len(TaskTests) |->
        LET t == CHOOSE x \in {TaskTests[i] : i \in 1..Len(TaskTests)} :
                    Cardinality({i \in 1..Len(TaskTests) :
                                    TaskTests[i].order < x.order}) = k - 1
        IN t.name]

\* the test pytest runs next, "None" when all have run
NextTest == IF Len(tskRan) < Len(Schedule) THEN Schedule[Len(tskRan) + 1] ELSE "None"

Op(t, api, q) == [test |-> t, api |-> api, queue |-> q]

Ran(t, passed) == [test |-> t, passed |-> passed]

\* snippets.create_queue / snippets.retry_task: the queues are created one
\* after the other; k of them before the service fails, or all of them
Prefix(names, k) == {names[i] : i \in 1..k}

CreateOps(t, names, k) == [i \in 1..k |-> Op(t, "create_queue", names[i])]

\* a run of delete_queue calls in order: how many can succeed before one
\* raises (a queue the service does not hold cannot be deleted)
DeleteRuns(queues, names) ==
    {j \in 0..Len(names) : \A i \in 1..j : names[i] \in queues}

DeleteOps(t, names, j) ==
    [i \in 1..(IF j < Len(names) THEN j + 1 ELSE j) |-> Op(t, "delete_queue", names[i])]

\* lines 26-32: test_create_queue
TestCreateQueue ==
    /\ NextTest = "test_create_queue"
    /\ \E k \in 0..2 :
        LET names == <<QUEUE_NAME_1, QUEUE_NAME_2>> IN
        /\ tskQueues' = tskQueues \cup Prefix(names, k)
        /\ tskCreated' = tskCreated \cup Prefix(names, k)
        /\ tskOps' = tskOps \o CreateOps("test_create_queue", names, k)
        /\ tskRan' = Append(tskRan, Ran("test_create_queue", k = 2))
    /\ UNCHANGED notTsk

\* a test whose body is one request on QUEUE_NAME_1 and an assert on the
\* name of the result: the request fails when the queue is not there, and
\* can fail when it is
TestOnQueue1(t, api) ==
    /\ NextTest = t
    /\ \E ok \in {b \in BOOLEAN : b => QUEUE_NAME_1 \in tskQueues} :
        tskRan' = Append(tskRan, Ran(t, ok))
    /\ tskOps' = Append(tskOps, Op(t, api, QUEUE_NAME_1))
    /\ UNCHANGED <<tskQueues, tskCreated>>
    /\ UNCHANGED notTsk

\* lines 35-41
TestUpdateQueue == TestOnQueue1("test_update_queue", "update_queue")

\* lines 44-50
TestCreateTask == TestOnQueue1("test_create_task", "create_task")

\* lines 53-59
TestCreateTaskWithData == TestOnQueue1("test_create_task_with_data", "create_tasks_with_data")

\* lines 62-68
TestCreateTaskWithName == TestOnQueue1("test_create_task_with_name", "create_task_with_name")

\* lines 71-77
TestDeleteTask == TestOnQueue1("test_delete_task", "delete_task")

\* lines 95-109: test_retry_task: retry_task creates the three queues, the
\* assert, then the three delete_queue calls
TestRetryTask ==
    /\ NextTest = "test_retry_task"
    /\ \E k \in 0..3 :
        LET made == tskQueues \cup Prefix(QUEUE_NAME, k) IN
        \E asserted \in {b \in BOOLEAN : b => k = 3} :
        \E j \in IF asserted THEN DeleteRuns(made, QUEUE_NAME) ELSE {0} :
        /\ tskQueues' = made \ Prefix(QUEUE_NAME, j)
        /\ tskCreated' = tskCreated \cup Prefix(QUEUE_NAME, k)
        /\ tskOps' = tskOps \o CreateOps("test_retry_task", QUEUE_NAME, k)
                     \o (IF asserted THEN DeleteOps("test_retry_task", QUEUE_NAME, j)
                         ELSE <<>>)
        /\ tskRan' = Append(tskRan, Ran("test_retry_task", asserted /\ j = 3))
    /\ UNCHANGED notTsk

\* lines 80-92: test_delete_queue: delete QUEUE_NAME_1, assert, delete
\* QUEUE_NAME_2, assert
TestDeleteQueue ==
    /\ NextTest = "test_delete_queue"
    /\ LET names == <<QUEUE_NAME_1, QUEUE_NAME_2>> IN
        \E j \in DeleteRuns(tskQueues, names) :
        /\ tskQueues' = tskQueues \ Prefix(names, j)
        /\ tskOps' = tskOps \o DeleteOps("test_delete_queue", names, j)
        /\ tskRan' = Append(tskRan, Ran("test_delete_queue", j = 2))
    /\ UNCHANGED tskCreated
    /\ UNCHANGED notTsk

NextTsk ==
    \/ TestCreateQueue
    \/ TestUpdateQueue
    \/ TestCreateTask
    \/ TestCreateTaskWithData
    \/ TestCreateTaskWithName
    \/ TestDeleteTask
    \/ TestRetryTask
    \/ TestDeleteQueue

-----------------------------------------------------------------------------
(* cloud_tasks/http_queues/update_http_queue_test.py: the q fixture *)

\* uuid.uuid4().hex of line 36
HqNames == {"q1", "q2", "q3"}

\* What a request to the Cloud Tasks service can raise; every one of them is
\* a subclass of Exception.
HqServiceErrors ==
    {"NotFound", "PermissionDenied", "ServiceUnavailable", "DeadlineExceeded"}

\* The queues of the project that are not this test's.
HqOtherQueues == {"other"}

\* One request: the method, the queue it names and what it raised.
HqOp(api, queue, raised) == [api |-> api, queue |-> queue, raised |-> raised]

\* The line of the test body (64-74) at which the body ends: a raise of one
\* of the two update_http_queue calls, a failing assert, or its last line.
HqBodyEnds ==
    {"raise@66", "assert@67", "assert@68", "raise@70", "assert@72", "assert@73",
     "assert@74", "end@74"}

\* The update_http_queue calls a body ending at e made.
HqBodyCalls(queue, e) ==
    IF e = "raise@66" THEN <<HqOp("update_http_queue", queue, "Exception")>>
    ELSE IF e \in {"assert@67", "assert@68"}
    THEN <<HqOp("update_http_queue", queue, "None")>>
    ELSE <<HqOp("update_http_queue", queue, "None"),
           HqOp("update_http_queue", queue,
                IF e = "raise@70" THEN "Exception" ELSE "None")>>

\* Lines 58-61 when delete_queue raised e: the except clause prints the line
\* and ends, so no exception leaves the fixture.
\* a variant with no except clause: the exception leaves the fixture
HqExcept_reraises(e) == [stdout |-> <<>>, exc |-> e]

HqExcept(e) ==
    [stdout |-> <<[text |-> "Tried my best to clean up, but could not: ", e |-> e]>>,
     exc |-> "None"]

\* Lines 34-54: the fixture up to its yield. create_queue adds the queue and
\* returns it, or it raises: then the generator never reaches the yield, and
\* pytest runs neither the test body nor the lines after the yield.
HqSetup ==
    /\ hqPc = "setup"
    /\ \E r \in {"None"} \cup HqServiceErrors :
        /\ hqOps' = Append(hqOps, HqOp("create_queue", hqName, r))
        /\ IF r = "None"
           THEN /\ hqService' = hqService \cup {hqName}
                /\ hqQueue' = hqName
                /\ hqPc' = "body"
                /\ UNCHANGED hqVerdict
           ELSE /\ hqPc' = "done"
                /\ hqVerdict' = "error"
                /\ UNCHANGED <<hqService, hqQueue>>
    /\ UNCHANGED <<hqName, hqStdout, hqExc>>
    /\ UNCHANGED notHq

\* Lines 64-74: the test body, resumed by the yield of line 56. It binds its
\* own q anew and leaves the fixture's queue alone.
HqBody ==
    /\ hqPc = "body"
    /\ \E e \in HqBodyEnds :
        /\ hqOps' = hqOps \o HqBodyCalls(hqQueue, e)
        /\ hqVerdict' = IF e = "end@74" THEN "passed" ELSE "failed"
    /\ hqPc' = "teardown"
    /\ UNCHANGED <<hqName, hqQueue, hqService, hqStdout, hqExc>>
    /\ UNCHANGED notHq

\* Lines 58-61: pytest resumes the generator after the body, whatever the
\* body's verdict.
HqTeardown ==
    /\ hqPc = "teardown"
    /\ \E r \in {"None"} \cup HqServiceErrors :
        /\ hqOps' = Append(hqOps, HqOp("delete_queue", hqQueue, r))
        /\ IF r = "None"
           THEN /\ hqService' = hqService \ {hqQueue}
                /\ UNCHANGED <<hqStdout, hqExc>>
           ELSE /\ hqStdout' = hqStdout \o HqExcept(r).stdout
                /\ hqExc' = HqExcept(r).exc
                /\ UNCHANGED hqService
    /\ hqPc' = "done"
    /\ UNCHANGED <<hqName, hqQueue, hqVerdict>>
    /\ UNCHANGED notHq

NextHq ==
    \/ HqSetup
    \/ HqBody
    \/ HqTeardown

-----------------------------------------------------------------------------
(* datalabeling/create_annotation_spec_set_test.py, import_data_test.py:
   a function under @backoff.on_exception(backoff.expo, DeadlineExceeded,
   max_time=...) *)

\* the largest max_time, in clock ticks
MaxBudget == 3

\* the longest one attempt of the wrapped call takes, in clock ticks
MaxDuration == 2

\* What the wrapped request can raise.
BkErrors == {"DeadlineExceeded", "InvalidArgument", "ServiceUnavailable"}

\* The exceptions the decorator is given: the except clause of the wrapper
\* matches these alone.
\* a variant whose wrapper retries on any exception
BkCaught_any(e) == e \in BkErrors

BkCaught(e) == e = "DeadlineExceeded"

\* The wrapper gives up when the time it read before the attempt had reached
\* max_time.
BkGiveUp(elapsed, max_time) == elapsed >= max_time

\* backoff.expo: 1, 2, 4, ... for the first, second, third failed attempt
BkExpo(n) == 2 ^ (n - 1)

Min(a, b) == IF a <= b THEN a ELSE b

\* The sleeps the wrapper can choose after the n-th attempt failed: full
\* jitter draws from 0 to the expo value, and the wrapper caps the draw at
\* the time left until max_time.
BkWaits(n, elapsed, max_time) == 0..Min(BkExpo(n), max_time - elapsed)

\* One attempt of the wrapped call, d ticks long with outcome o: a return
\* ends the wrapper at once, an exception the except clause does not match
\* leaves it, a matched one leaves it when the wrapper gives up and is
\* followed by a sleep otherwise.
BkAttempt ==
    /\ bkPc = "calling"
    /\ \E d \in 1..MaxDuration, o \in {"returns"} \cup BkErrors :
        /\ bkNow' = bkNow + d
        /\ bkOutcomes' = Append(bkOutcomes, o)
        /\ IF o = "returns"
           THEN /\ bkPc' = "returned"
                /\ bkRet' = "response"
                /\ UNCHANGED <<bkExc, bkWait>>
           ELSE IF ~BkCaught(o) \/ BkGiveUp(bkElapsed, bkMaxTime)
           THEN /\ bkPc' = "raised"
                /\ bkExc' = o
                /\ UNCHANGED <<bkRet, bkWait>>
           ELSE /\ bkPc' = "sleeping"
                /\ bkWait' \in BkWaits(Len(bkOutcomes) + 1, bkElapsed, bkMaxTime)
                /\ UNCHANGED <<bkRet, bkExc>>
    /\ UNCHANGED <<bkMaxTime, bkElapsed>>
    /\ UNCHANGED notBk

\* time.sleep(seconds), then the top of the loop: the wrapper reads the
\* elapsed time and calls again.
BkSleep ==
    /\ bkPc = "sleeping"
    /\ bkNow' = bkNow + bkWait
    /\ bkElapsed' = bkNow + bkWait
    /\ bkWait' = 0
    /\ bkPc' = "calling"
    /\ UNCHANGED <<bkMaxTime, bkOutcomes, bkRet, bkExc>>
    /\ UNCHANGED notBk

NextBk ==
    \/ BkAttempt
    \/ BkSleep

-----------------------------------------------------------------------------
(* dataflow/flex-templates/streaming_beam/streaming_beam_test.py: the test
   process, publish_process and pipeline_process *)

\* pipeline_process.join(timeout=90), in seconds
JoinTimeout == 90

\* time.sleep(10) of _infinite_publish_job and of line 100, in seconds: the
\* step of the clock
SleepSeconds == 10

\* Lines 91-103, in statement order.
\* a variant that issues the query before the processes are terminated
SbScript_queryFirst ==
    <<"publish.start", "pipeline.start", "pipeline.join", "publish.join",
      "query", "pipeline.terminate", "publish.terminate", "sleep">>

SbScript ==
    <<"publish.start", "pipeline.start", "pipeline.join", "publish.join",
      "pipeline.terminate", "publish.terminate", "sleep", "query">>

\* What publish or future.result() can raise in the publisher process.
SbPublishErrors == {"NotFound", "DeadlineExceeded"}

\* The test is at statement s of the script.
SbAt(s) == sbPos \in 1..Len(SbScript) /\ SbScript[sbPos] = s

\* The test has executed the statement it is at.
SbStep(s) ==
    /\ sbPos' = sbPos + 1
    /\ sbEvents' = Append(sbEvents, s)

\* process.terminate(): a running process is killed, one that has ended stays
\* as it is.
SbTerminated(p) == IF p = "running" THEN "terminated" ELSE p

\* Line 91: the publisher becomes an OS process of its own.
SbStartPublisher ==
    /\ SbAt("publish.start")
    /\ SbStep("publish.start")
    /\ sbPub' = "running"
    /\ UNCHANGED <<sbClock, sbWaited, sbPubPc, sbPubExc, sbPublished, sbPipe>>
    /\ UNCHANGED notSb

\* Line 92: the pipeline becomes an OS process of its own.
SbStartPipeline ==
    /\ SbAt("pipeline.start")
    /\ SbStep("pipeline.start")
    /\ sbPipe' = "running"
    /\ UNCHANGED <<sbClock, sbWaited, sbPub, sbPubPc, sbPubExc, sbPublished>>
    /\ UNCHANGED notSb

\* Line 94, while the join blocks: the pipeline still runs and the timeout
\* has not passed, so the clock moves on; a sleeping publisher wakes up.
SbJoinWaits ==
    /\ SbAt("pipeline.join")
    /\ sbPipe = "running"
    /\ sbWaited < JoinTimeout
    /\ sbClock' = sbClock + SleepSeconds
    /\ sbWaited' = sbWaited + SleepSeconds
    /\ sbPubPc' = "publish"
    /\ UNCHANGED <<sbPos, sbEvents, sbPub, sbPubExc, sbPublished, sbPipe>>
    /\ UNCHANGED notSb

\* Line 94, the join returns: the pipeline has ended or the timeout passed.
SbJoinPipeline ==
    /\ SbAt("pipeline.join")
    /\ sbPipe # "running" \/ sbWaited >= JoinTimeout
    /\ SbStep("pipeline.join")
    /\ UNCHANGED <<sbClock, sbWaited, sbPub, sbPubPc, sbPubExc, sbPublished, sbPipe>>
    /\ UNCHANGED notSb

\* Line 95: join(timeout=0) returns at once.
SbJoinPublisher ==
    /\ SbAt("publish.join")
    /\ SbStep("publish.join")
    /\ UNCHANGED <<sbClock, sbWaited, sbPub, sbPubPc, sbPubExc, sbPublished, sbPipe>>
    /\ UNCHANGED notSb

\* Line 97
SbTerminatePipeline ==
    /\ SbAt("pipeline.terminate")
    /\ SbStep("pipeline.terminate")
    /\ sbPipe' = SbTerminated(sbPipe)
    /\ UNCHANGED <<sbClock, sbWaited, sbPub, sbPubPc, sbPubExc, sbPublished>>
    /\ UNCHANGED notSb

\* Line 98
SbTerminatePublisher ==
    /\ SbAt("publish.terminate")
    /\ SbStep("publish.terminate")
    /\ sbPub' = SbTerminated(sbPub)
    /\ UNCHANGED <<sbClock, sbWaited, sbPubPc, sbPubExc, sbPublished, sbPipe>>
    /\ UNCHANGED notSb

\* Line 100: time.sleep(10)
SbSleep ==
    /\ SbAt("sleep")
    /\ SbStep("sleep")
    /\ sbClock' = sbClock + SleepSeconds
    /\ sbPubPc' = "publish"
    /\ UNCHANGED <<sbWaited, sbPub, sbPubExc, sbPublished, sbPipe>>
    /\ UNCHANGED notSb

\* Lines 101-103: the query is issued.
SbQuery ==
    /\ SbAt("query")
    /\ SbStep("query")
    /\ UNCHANGED <<sbClock, sbWaited, sbPub, sbPubPc, sbPubExc, sbPublished, sbPipe>>
    /\ UNCHANGED notSb

\* Lines 52-57 in the publisher process: one turn of the while True loop.
\* publish and future.result() return, and the loop sleeps; or one of them
\* raises, nothing catches it, and the process ends.
SbPublish ==
    /\ sbPub = "running"
    /\ sbPubPc = "publish"
    /\ \E r \in {"None"} \cup SbPublishErrors :
        IF r = "None"
        THEN /\ sbPublished' = sbPublished + 1
             /\ sbPubPc' = "sleep"
             /\ UNCHANGED <<sbPub, sbPubExc>>
        ELSE /\ sbPub' = "ended"
             /\ sbPubExc' = r
             /\ UNCHANGED <<sbPublished, sbPubPc>>
    /\ UNCHANGED <<sbPos, sbEvents, sbClock, sbWaited, sbPipe>>
    /\ UNCHANGED notSb

\* Lines 78-89 in the pipeline process: sp.call returns, the process ends.
SbPipelineEnds ==
    /\ sbPipe = "running"
    /\ sbPipe' = "ended"
    /\ UNCHANGED <<sbPos, sbEvents, sbClock, sbWaited, sbPub, sbPubPc, sbPubExc, sbPublished>>
    /\ UNCHANGED notSb

NextSb ==
    \/ SbStartPublisher
    \/ SbStartPipeline
    \/ SbJoinWaits
    \/ SbJoinPipeline
    \/ SbJoinPublisher
    \/ SbTerminatePipeline
    \/ SbTerminatePublisher
    \/ SbSleep
    \/ SbQuery
    \/ SbPublish
    \/ SbPipelineEnds

-----------------------------------------------------------------------------
(* firestore/cloud-async-client/snippets.py: delete_full_collection *)

\* the largest batch_size
MaxBatch == 3

\* the largest number of documents the collection starts with
MaxDocs == 7

\* coll_ref.limit(batch_size).stream(): the first batch_size documents.
Limit(docs, n) == {d \in docs : Cardinality({e \in docs : e < d}) < n}

\* Lines 681-682: what the call returns once its loop has ended. With
\* deleted >= batch_size it returns delete_collection(coll_ref, batch_size):
\* calling an async function makes a coroutine object and runs none of its
\* body, and the return hands that object over without awaiting it.
DcReturned(deleted, batch_size) ==
    IF deleted >= batch_size THEN "coroutine, not awaited" ELSE "None"

\* Lines 673-674: the query is made and the counter reset.
DcStream ==
    /\ dcPc = "start"
    /\ dcDocs' = Limit(dcColl, dcBatch)
    /\ dcDeleted' = 0
    /\ dcCalls' = dcCalls + 1
    /\ dcPc' = "loop"
    /\ UNCHANGED <<dcBatch, dcColl, dcRet>>
    /\ UNCHANGED notDc

\* Lines 676-679: one turn of the async for.
DcDeleteDoc ==
    /\ dcPc = "loop"
    /\ dcDocs # {}
    /\ LET doc == CHOOSE d \in dcDocs : \A e \in dcDocs : d <= e
       IN /\ dcColl' = dcColl \ {doc}
          /\ dcDocs' = dcDocs \ {doc}
    /\ dcDeleted' = dcDeleted + 1
    /\ UNCHANGED <<dcPc, dcBatch, dcCalls, dcRet>>
    /\ UNCHANGED notDc

\* Lines 681-682: the stream is used up; the call returns and the await of
\* lines 686-689 completes with what it returned.
DcReturn ==
    /\ dcPc = "loop"
    /\ dcDocs = {}
    /\ dcRet' = DcReturned(dcDeleted, dcBatch)
    /\ dcPc' = "done"
    /\ UNCHANGED <<dcBatch, dcColl, dcDocs, dcDeleted, dcCalls>>
    /\ UNCHANGED notDc

NextDc ==
    \/ DcStream
    \/ DcDeleteDoc
    \/ DcReturn

-----------------------------------------------------------------------------
(* composer/blog/gcp-tech-blog/data-orchestration-with-composer/dags/
   data_orchestration_blog_sample_dag.py: a run of dataflow_to_bq_workflow *)

\* the pokes the sensor makes before it times out
MaxPokes == 3

\* the largest COUNT(*) of the table
MaxRows == 2

validate_file_exists == "validate_file_exists"
start_dataflow_job == "start-dataflow-template-job"
execute_bigquery_sql == "execute_bigquery_sql"

DgTasks == {validate_file_exists, start_dataflow_job, execute_bigquery_sql}

\* Line 106: a >> b sets b downstream of a.
DgEdges ==
    {<<validate_file_exists, start_dataflow_job>>,
     <<start_dataflow_job, execute_bigquery_sql>>}

Upstream(t) == {u \in DgTasks : <<u, t>> \in DgEdges}

\* No operator is given a trigger_rule, so each has the default, all_success:
\* a task instance may run once every upstream task instance succeeded.
\* a variant with trigger rule all_done: the upstream tasks have finished
DgReady_allDone(t, state) ==
    \A u \in Upstream(t) : state[u] \in {"success", "failed", "upstream_failed"}

DgReady(t, state) == \A u \in Upstream(t) : state[u] = "success"

\* Under all_success a task instance with a failed or upstream_failed
\* upstream is set to upstream_failed and never runs.
DgBlocked(t, state) ==
    \E u \in Upstream(t) : state[u] \in {"failed", "upstream_failed"}

\* A task instance fails: no operator sets retries, so the first failure is
\* final, and default_args (line 67) has on_failure_callback run for it.
DgFail(t) ==
    /\ dgState' = [dgState EXCEPT ![t] = "failed"]
    /\ dgAlerts' = Append(dgAlerts, t)

\* The scheduler starts a task instance whose trigger rule is met.
DgStart ==
    /\ \E t \in DgTasks :
        /\ dgState[t] = "none"
        /\ DgReady(t, dgState)
        /\ dgState' = [dgState EXCEPT ![t] = "running"]
        /\ dgStarted' = Append(dgStarted, t)
    /\ UNCHANGED <<dgPokes, dgObjectAt, dgRows, dgAlerts>>
    /\ UNCHANGED notDg

\* The scheduler gives up a task instance whose upstream did not succeed.
DgUpstreamFailed ==
    /\ \E t \in DgTasks :
        /\ dgState[t] = "none"
        /\ ~DgReady(t, dgState)
        /\ DgBlocked(t, dgState)
        /\ dgState' = [dgState EXCEPT ![t] = "upstream_failed"]
    /\ UNCHANGED <<dgStarted, dgPokes, dgObjectAt, dgRows, dgAlerts>>
    /\ UNCHANGED notDg

\* Lines 70-72: GCSObjectExistenceSensor pokes; it succeeds when the object
\* exists and fails when its timeout passes first.
DgPoke ==
    /\ dgState[validate_file_exists] = "running"
    /\ dgPokes' = dgPokes + 1
    /\ IF dgPokes + 1 >= dgObjectAt
       THEN /\ dgState' = [dgState EXCEPT ![validate_file_exists] = "success"]
            /\ UNCHANGED dgAlerts
       ELSE IF dgPokes + 1 >= MaxPokes
       THEN DgFail(validate_file_exists)
       ELSE UNCHANGED <<dgState, dgAlerts>>
    /\ UNCHANGED <<dgStarted, dgObjectAt, dgRows>>
    /\ UNCHANGED notDg

\* Lines 76-95: DataflowTemplatedJobStartOperator; the job ends well or not.
DgDataflow ==
    /\ dgState[start_dataflow_job] = "running"
    /\ \E ok \in BOOLEAN :
        IF ok
        THEN /\ dgState' = [dgState EXCEPT ![start_dataflow_job] = "success"]
             /\ UNCHANGED dgAlerts
        ELSE DgFail(start_dataflow_job)
    /\ UNCHANGED <<dgStarted, dgPokes, dgObjectAt, dgRows>>
    /\ UNCHANGED notDg

\* Lines 98-104: BigQueryCheckOperator fails when a value of the first row
\* is false, here a COUNT(*) of 0.
DgCheck ==
    /\ dgState[execute_bigquery_sql] = "running"
    /\ IF dgRows > 0
       THEN /\ dgState' = [dgState EXCEPT ![execute_bigquery_sql] = "success"]
            /\ UNCHANGED dgAlerts
       ELSE DgFail(execute_bigquery_sql)
    /\ UNCHANGED <<dgStarted, dgPokes, dgObjectAt, dgRows>>
    /\ UNCHANGED notDg

NextDg ==
    \/ DgStart
    \/ DgUpstreamFailed
    \/ DgPoke
    \/ DgDataflow
    \/ DgCheck

-----------------------------------------------------------------------------
(* run/events-pubsub/main.py: index() *)

\* the longest decoded message data, in bytes
MaxBytes == 3

\* The bytes of a message's data: a letter, a blank, and a byte that starts
\* no UTF-8 sequence.
PsByteValues == {"a", " ", "0xff"}

PsBytes == UNION {[1..n -> PsByteValues] : n \in 0..MaxBytes}

\* message['data']: absent, or a value of some type; a str is base64 text,
\* given by the bytes it encodes and by whether its padding is right.
PsAbsentPayload == [kind |-> "absent", bytes |-> <<>>, padded |-> TRUE]

PsPayloads ==
    [kind : {"str"}, bytes : PsBytes, padded : BOOLEAN]
        \cup {[kind |-> "int", bytes |-> <<>>, padded |-> TRUE],
              [kind |-> "none", bytes |-> <<>>, padded |-> TRUE]}

\* envelope['message']: absent, or a value of some type; a dict has or has
\* not the key 'data'.
PsAbsentMessage == [kind |-> "absent", data |-> PsAbsentPayload]

PsMessages ==
    [kind : {"dict"}, data : PsPayloads \cup {PsAbsentPayload}]
        \cup {[kind |-> "str", data |-> PsAbsentPayload],
              [kind |-> "none", data |-> PsAbsentPayload]}

\* event.data: a value of some type, empty or not; a dict has or has not the
\* key 'message'.
PsEnvelopes ==
    [kind : {"dict"}, empty : {FALSE}, message : PsMessages]
        \cup [kind : {"str", "list", "dict"}, empty : BOOLEAN, message : {PsAbsentMessage}]
        \cup {[kind |-> "none", empty |-> TRUE, message |-> PsAbsentMessage]}

PsIds == {"id-1", "id-2"}

PsEvents == [id : PsIds, data : PsEnvelopes]

NoEvent == [id |-> "None", data |-> [kind |-> "none", empty |-> TRUE, message |-> PsAbsentMessage]]

\* Lines 37, 41, 45: the exceptions of from_http the handler catches, and
\* the others from_http can raise.
PsCaught == {"MissingRequiredFields", "InvalidStructuredJSON", "InvalidRequiredFields"}

PsFromHttpErrors == PsCaught \cup {"GenericException"}

\* Lines 37-47: the text answered for each caught exception.
PsRejection(e) ==
    CASE e = "MissingRequiredFields" -> "Failed to find all required cloudevent fields. "
      [] e = "InvalidStructuredJSON" -> "Could not deserialize the payload as JSON. "
      [] e = "InvalidRequiredFields" -> "Request contained invalid required cloudevent fields. "

\* Line 51: not envelope
PsFalsy(v) == v.kind = "none" \/ v.empty

\* Line 56: not isinstance(envelope, dict) or 'message' not in envelope
\* a variant that tests the type alone
PsInvalidFormat_typeOnly(envelope) == envelope.kind # "dict"

PsInvalidFormat(envelope) ==
    envelope.kind # "dict" \/ envelope.message = PsAbsentMessage

\* Line 64: isinstance(pubsub_message, dict) and 'data' in pubsub_message
PsHasData(message) == message.kind = "dict" /\ message.data # PsAbsentPayload

\* base64.b64decode(x): TypeError for what is neither str nor bytes,
\* binascii.Error for wrong padding, the encoded bytes otherwise.
b64decode(x) ==
    IF x.kind # "str" THEN [raised |-> "TypeError", bytes |-> <<>>]
    ELSE IF ~x.padded THEN [raised |-> "binascii.Error", bytes |-> <<>>]
    ELSE [raised |-> "None", bytes |-> x.bytes]

\* bytes.decode('utf-8'): UnicodeDecodeError on a byte that is no UTF-8.
decode(b) ==
    IF \E i \in 1..Len(b) : b[i] = "0xff"
    THEN [raised |-> "UnicodeDecodeError", text |-> <<>>]
    ELSE [raised |-> "None", text |-> b]

\* str.strip(): the text without its leading and trailing whitespace.
RECURSIVE lstripBlanks(_)
lstripBlanks(s) ==
    IF s # <<>> /\ Head(s) = " " THEN lstripBlanks(Tail(s)) ELSE s

RECURSIVE rstripBlanks(_)
rstripBlanks(s) ==
    IF s # <<>> /\ s[Len(s)] = " " THEN rstripBlanks(SubSeq(s, 1, Len(s) - 1)) ELSE s

strip(s) == rstripBlanks(lstripBlanks(s))

World == <<"W", "o", "r", "l", "d">>

\* Line 65: the name decoded from message['data'], or the exception of the
\* first step that raises.
PsDecodedName(payload) ==
    IF b64decode(payload).raised # "None"
    THEN [raised |-> b64decode(payload).raised, name |-> <<>>]
    ELSE IF decode(b64decode(payload).bytes).raised # "None"
    THEN [raised |-> "UnicodeDecodeError", name |-> <<>>]
    ELSE [raised |-> "None", name |-> strip(decode(b64decode(payload).bytes).text)]

PsResponse(body, status) == [body |-> body, status |-> status]

NoPsResponse == PsResponse(<<>>, 0)

\* Line 67: f'Hello, {name}! ID: {event['id']}'
PsHello(name, id) == <<"Hello, ", name, "! ID: ", id>>

PsResult(resp, exc, stdout) == [resp |-> resp, exc |-> exc, stdout |-> stdout]

\* Lines 49-69: index() once from_http has returned event. The subscript
\* envelope['message'] of line 61 raises KeyError on a dict without the key.
PsIndexEvent(event) ==
    IF PsFalsy(event.data)
    THEN PsResult(PsResponse(<<"Bad Request: ", "no Pub/Sub message received">>, 400),
                  "None", <<"error: no Pub/Sub message received">>)
    ELSE IF PsInvalidFormat(event.data)
    THEN PsResult(PsResponse(<<"Bad Request: ", "invalid Pub/Sub message format">>, 400),
                  "None", <<"error: invalid Pub/Sub message format">>)
    ELSE IF event.data.message = PsAbsentMessage
    THEN PsResult(NoPsResponse, "KeyError", <<>>)
    ELSE IF ~PsHasData(event.data.message)
    THEN PsResult(PsResponse(PsHello(World, event.id), 200), "None",
                  <<PsHello(World, event.id)>>)
    ELSE IF PsDecodedName(event.data.message.data).raised # "None"
    THEN PsResult(NoPsResponse, PsDecodedName(event.data.message.data).raised, <<>>)
    ELSE PsResult(PsResponse(PsHello(PsDecodedName(event.data.message.data).name,
                                     event.id), 200),
                  "None",
                  <<PsHello(PsDecodedName(event.data.message.data).name, event.id)>>)

\* Lines 34-47: index() when from_http raised e.
PsIndexRejected(e) ==
    IF e \in PsCaught
    THEN PsResult(PsResponse(<<PsRejection(e)>>, 400), "None",
                  <<"cloudevents.exceptions." \o e>>)
    ELSE PsResult(NoPsResponse, e, <<>>)

\* The interpreter compiles main.py. Line 67 puts a ' inside a field of an
\* f-string that is itself quoted with ': a SyntaxError to an interpreter
\* older than Python 3.12, which then defines no handler at all.
PsImport ==
    /\ psPc = "import"
    /\ psPc' = IF psPep701 THEN "serving" ELSE "syntax_error"
    /\ UNCHANGED <<psPep701, psFromHttp, psEvent, psResp, psExc, psStdout>>
    /\ UNCHANGED notPs

\* Lines 31-69: index() on one POST request, from_http rejecting it or
\* returning its event.
PsIndex ==
    /\ psPc = "serving"
    /\ \E o \in PsFromHttpErrors \cup {"event"} :
        /\ psFromHttp' = o
        /\ psEvent' \in IF o = "event" THEN PsEvents ELSE {NoEvent}
        /\ LET r == IF o = "event" THEN PsIndexEvent(psEvent') ELSE PsIndexRejected(o)
           IN /\ psResp' = r.resp
              /\ psExc' = r.exc
              /\ psStdout' = r.stdout
              /\ psPc' = IF r.exc = "None" THEN "answered" ELSE "raised"
    /\ UNCHANGED psPep701
    /\ UNCHANGED notPs

NextPs ==
    \/ PsImport
    \/ PsIndex

-----------------------------------------------------------------------------
(* datalabeling/create_annotation_spec_set_test.py: the cleaner fixture and
   test_create_annotation_spec_set *)

\* The name the service gives the annotation spec set the n-th attempt
\* created.
ClName(n) == n

\* What testing_lib.delete_annotation_spec_set can raise.
ClDeleteErrors == {"DeadlineExceeded", "NotFound", "ServiceUnavailable"}

\* Lines 43-48, one attempt of run_sample() under the backoff wrapper. The
\* request returns the set it created; or it raises, and when the deadline
\* passed on the client the service may have created the set all the same.
\* After a DeadlineExceeded the wrapper calls again until max_time is spent;
\* any other exception, or the last DeadlineExceeded, fails the test.
ClAttempt ==
    /\ clPc = "calling"
    /\ clAttempts' = clAttempts + 1
    /\ \E d \in 1..MaxDuration, o \in {"returns"} \cup BkErrors, made \in BOOLEAN :
        /\ o = "returns" => made
        /\ o \in BkErrors \ {"DeadlineExceeded"} => ~made
        /\ clService' = IF made THEN clService \cup {ClName(clAttempts + 1)} ELSE clService
        /\ clCreated' = IF made THEN clCreated \cup {ClName(clAttempts + 1)} ELSE clCreated
        /\ clElapsed' = clElapsed + d
        /\ IF o = "returns"
           THEN /\ clResponse' = ClName(clAttempts + 1)
                /\ clPc' = "returned"
                /\ UNCHANGED clVerdict
           ELSE IF ~BkCaught(o) \/ BkGiveUp(clElapsed, MaxBudget)
           THEN /\ clPc' = "teardown"
                /\ clVerdict' = "failed"
                /\ UNCHANGED clResponse
           ELSE UNCHANGED <<clPc, clVerdict, clResponse>>
    /\ UNCHANGED <<clNames, clDeleted, clExc>>
    /\ UNCHANGED notCl

\* Lines 50-52: the name of the response is appended to the cleaner's list,
\* then the assert on the captured output passes or fails.
ClAppend ==
    /\ clPc = "returned"
    /\ clNames' = Append(clNames, clResponse)
    /\ clVerdict' \in {"passed", "failed"}
    /\ clPc' = "teardown"
    /\ UNCHANGED <<clElapsed, clAttempts, clService, clCreated, clResponse, clDeleted, clExc>>
    /\ UNCHANGED notCl

\* Lines 36-37, one turn of the teardown loop: the next name is deleted, or
\* the deletion raises; no try surrounds it, so the exception leaves the
\* fixture and the loop with it.
ClDelete ==
    /\ clPc = "teardown"
    /\ Len(clDeleted) < Len(clNames)
    /\ LET name == clNames[Len(clDeleted) + 1]
       IN /\ clDeleted' = Append(clDeleted, name)
          /\ \E r \in {"None"} \cup ClDeleteErrors :
              IF r = "None"
              THEN /\ clService' = clService \ {name}
                   /\ UNCHANGED <<clPc, clExc>>
              ELSE /\ clExc' = r
                   /\ clPc' = "done"
                   /\ UNCHANGED clService
    /\ UNCHANGED <<clElapsed, clAttempts, clCreated, clResponse, clNames, clVerdict>>
    /\ UNCHANGED notCl

\* Line 36: the loop has gone through the list; the teardown ends.
ClTeardownEnds ==
    /\ clPc = "teardown"
    /\ Len(clDeleted) = Len(clNames)
    /\ clPc' = "done"
    /\ UNCHANGED <<clElapsed, clAttempts, clService, clCreated, clResponse, clNames,
                   clDeleted, clVerdict, clExc>>
    /\ UNCHANGED notCl

NextCl ==
    \/ ClAttempt
    \/ ClAppend
    \/ ClDelete
    \/ ClTeardownEnds

-----------------------------------------------------------------------------
(* Specifications *)

\* The state before machine m takes its first step: m's variables as its
\* entry point leaves them, with its inputs drawn from their sets, and every
\* other machine idle.
Init(m) ==
    \* create_with_subnet.py:77-79
    /\ tplPc = IF m = "tpl" THEN "start" ELSE "idle"
    /\ tplName \in IF m = "tpl" THEN TemplateNames ELSE {"None"}
    /\ tplOp = NoOp
    /\ tplCalls = <<>>
    /\ tplStderr = <<>>
    /\ tplWait = NotWaited
    /\ tplRet = "None"
    /\ tplExc = NoExc
    \* a sample function is invoked
    /\ smpFn \in IF m = "smp" THEN SampleFns ELSE {NoFn}
    /\ smpPc = IF m = "smp" THEN 1 ELSE 0
    /\ smpAttempt = IF m = "smp" THEN 1 ELSE 0
    /\ smpCalls = <<>>
    /\ smpRaised = <<>>
    /\ smpOutcome = IF m = "smp" THEN "running" ELSE "idle"
    /\ smpExc = "None"
    \* wsgi/main.py:78
    /\ rtrPc = IF m = "rtr" THEN "waiting" ELSE "idle"
    /\ rtrEnv = NoEnv
    /\ rtrHandlers = <<>>
    /\ rtrResp = NoResponse
    \* get_static_ip_address.py:23-25
    /\ ipPc = IF m = "ip" THEN "start" ELSE "idle"
    /\ ipArgs \in IF m = "ip"
                  THEN [project_id : Projects, address_name : AddressNames,
                        region : RegionArgs]
                  ELSE {[project_id |-> "", address_name |-> "", region |-> "None"]}
    /\ ipStore \in IF m = "ip" THEN SUBSET Addresses ELSE {{}}
    /\ ipCalls = <<>>
    /\ ipGot = NoGet
    /\ ipRet = NoAddress
    /\ ipExc = "None"
    \* beta_snippets.py:270
    /\ visPc = IF m = "vis" THEN "start" ELSE "idle"
    /\ visArgv \in IF m = "vis" THEN VisArgvs
                    ELSE {[command |-> NoCommand, value |-> "missing"]}
    /\ visArgs = NoArgs
    /\ visCalled = <<>>
    /\ visErr = "None"
    \* analyze.py:281
    /\ vidPc = IF m = "vid" THEN "start" ELSE "idle"
    /\ vidArgv \in IF m = "vid" THEN VidArgvs
                    ELSE {[command |-> "none", value |-> "missing"]}
    /\ vidCalled = <<>>
    /\ vidErr = "None"
    \* snippets_test.py: no test has run and the service holds none of the
    \* queues (their names are fresh uuids)
    /\ tskRan = <<>>
    /\ tskQueues = {}
    /\ tskCreated = {}
    /\ tskOps = <<>>
    \* update_http_queue_test.py:33-36: the fixture is entered, the service
    \* holds no queue of that fresh name
    /\ hqPc = IF m = "hq" THEN "setup" ELSE "idle"
    /\ hqName \in IF m = "hq" THEN HqNames ELSE {"None"}
    /\ hqQueue = "None"
    /\ hqService \in IF m = "hq" THEN SUBSET HqOtherQueues ELSE {{}}
    /\ hqOps = <<>>
    /\ hqVerdict = "none"
    /\ hqStdout = <<>>
    /\ hqExc = "None"
    \* the decorated function is called: the wrapper starts its clock
    /\ bkPc = IF m = "bk" THEN "calling" ELSE "idle"
    /\ bkMaxTime \in IF m = "bk" THEN 1..MaxBudget ELSE {0}
    /\ bkNow = 0
    /\ bkElapsed = 0
    /\ bkOutcomes = <<>>
    /\ bkWait = 0
    /\ bkRet = "None"
    /\ bkExc = "None"
    \* streaming_beam_test.py:91: the two Process objects exist, none started
    /\ sbPos = IF m = "sb" THEN 1 ELSE 0
    /\ sbEvents = <<>>
    /\ sbClock = 0
    /\ sbWaited = 0
    /\ sbPub = "new"
    /\ sbPubPc = "publish"
    /\ sbPubExc = "None"
    /\ sbPublished = 0
    /\ sbPipe = "new"
    \* snippets.py:686: await delete_collection(coll_ref, batch_size) is reached
    /\ dcPc = IF m = "dc" THEN "start" ELSE "idle"
    /\ dcBatch \in IF m = "dc" THEN 1..MaxBatch ELSE {0}
    /\ dcColl \in IF m = "dc" THEN {1..n : n \in 0..MaxDocs} ELSE {{}}
    /\ dcDocs = {}
    /\ dcDeleted = 0
    /\ dcCalls = 0
    /\ dcRet = "None"
    \* the DAG of lines 63-106 is triggered: no task instance has a state
    /\ dgState = [t \in DgTasks |-> "none"]
    /\ dgStarted = <<>>
    /\ dgPokes = 0
    /\ dgObjectAt \in IF m = "dg" THEN 1..(MaxPokes + 1) ELSE {0}
    /\ dgRows \in IF m = "dg" THEN 0..MaxRows ELSE {0}
    /\ dgAlerts = <<>>
    \* main.py is about to be imported by an interpreter
    /\ psPc = IF m = "ps" THEN "import" ELSE "idle"
    /\ psPep701 \in IF m = "ps" THEN BOOLEAN ELSE {FALSE}
    /\ psFromHttp = "None"
    /\ psEvent = NoEvent
    /\ psResp = NoPsResponse
    /\ psExc = "None"
    /\ psStdout = <<>>
    \* create_annotation_spec_set_test.py:32-33, 41: the cleaner has yielded
    \* its empty list and the test calls run_sample()
    /\ clPc = IF m = "cl" THEN "calling" ELSE "idle"
    /\ clElapsed = 0
    /\ clAttempts = 0
    /\ clService = {}
    /\ clCreated = {}
    /\ clResponse = 0
    /\ clNames = <<>>
    /\ clDeleted = <<>>
    /\ clVerdict = "none"
    /\ clExc = "None"

SpecTpl == Init("tpl") /\ [][NextTpl]_vars

SpecSmp == Init("smp") /\ [][NextSmp]_vars

SpecRtr == Init("rtr") /\ [][NextRtr]_vars

SpecIp == Init("ip") /\ [][NextIp]_vars

SpecVis == Init("vis") /\ [][NextVis]_vars

SpecVid == Init("vid") /\ [][NextVid]_vars

SpecTsk == Init("tsk") /\ [][NextTsk]_vars

SpecHq == Init("hq") /\ [][NextHq]_vars

SpecBk == Init("bk") /\ [][NextBk]_vars

SpecSb == Init("sb") /\ [][NextSb]_vars

SpecDc == Init("dc") /\ [][NextDc]_vars

SpecDg == Init("dg") /\ [][NextDg]_vars

SpecPs == Init("ps") /\ [][NextPs]_vars

SpecCl == Init("cl") /\ [][NextCl]_vars

-----------------------------------------------------------------------------
(* Claims *)


\* C1: once wait_for_extended_operation has run on an operation whose
\* error_code is set, it has raised and returned nothing: when result() did
\* not time out, the exception is the one operation.exception() gives, or a
\* RuntimeError carrying operation.error_message when there is none.
C1_ErrorCodeAlwaysRaises ==
    (tplWait.kind # "none" /\ tplOp.error_code # 0) =>
        /\ tplWait.kind = "raise"
        /\ tplOp.outcome = "timeout" => tplWait.exc.type = "TimeoutError"
        /\ (tplOp.outcome # "timeout" /\ tplOp.exception # NoExc) =>
                tplWait.exc = tplOp.exception
        /\ (tplOp.outcome # "timeout" /\ tplOp.exception = NoExc) =>
                tplWait.exc = [type |-> "RuntimeError", msg |-> tplOp.error_message]

C1_Witness ==
    /\ tplWait.kind = "raise"
    /\ tplOp.error_code = 500
    /\ tplOp.outcome = "returns"
    /\ tplOp.exception = NoExc
    /\ tplWait.exc = [type |-> "RuntimeError", msg |-> "quota exceeded"]

\* C2: when result() returned a value and no error_code is set,
\* wait_for_extended_operation returns that value; the warnings only add
\* lines to stderr, one header and one line per warning.
C2_ReturnsResultDespiteWarnings ==
    (tplWait.kind # "none" /\ tplOp.error_code = 0
        /\ OperationResult(tplOp).kind = "return") =>
        /\ tplWait.kind = "return"
        /\ tplWait.value = tplOp.value
        /\ tplWait.exc = NoExc
        /\ \A i \in 1..Len(tplStderr) : tplStderr[i].kind \in {"warnings", "warning"}
        /\ Len(tplStderr) = IF Len(tplOp.warnings) = 0 THEN 0 ELSE Len(tplOp.warnings) + 1

C2_Witness ==
    /\ tplWait.kind = "return"
    /\ tplWait.value = "payload"
    /\ Len(tplOp.warnings) = MaxWarnings
    /\ Len(tplStderr) = MaxWarnings + 1

IsPrefix(s, t) == Len(s) <= Len(t) /\ \A i \in 1..Len(s) : s[i] = t[i]

\* C3: the remote calls are a prefix of insert, result, get; a get was issued
\* only after the wait returned on an operation without error_code; when the
\* wait raised, no get was issued and nothing was returned.
C3_InsertWaitGet ==
    /\ IsPrefix([i \in 1..Len(tplCalls) |-> tplCalls[i].api], <<"insert", "result", "get">>)
    /\ (\E i \in 1..Len(tplCalls) : tplCalls[i].api = "get") =>
            tplWait.kind = "return" /\ tplOp.error_code = 0
    /\ tplWait.kind = "raise" =>
            /\ \A i \in 1..Len(tplCalls) : tplCalls[i].api # "get"
            /\ tplRet = "None"
            /\ tplPc = "raised"
            /\ tplExc = tplWait.exc
    /\ tplRet # "None" => tplPc = "done" /\ Len(tplCalls) = 3

C3_Witness ==
    /\ tplPc = "raised"
    /\ tplWait.kind = "raise"
    /\ tplOp.error_code = 404
    /\ Len(tplCalls) = 2

Last(q) == q[Len(q)]

Decorated == {Fn_get_patch, Fn_update_in_transaction}

Count(q, x) == Cardinality({i \in 1..Len(q) : q[i] = x})

\* C5 as stated: no sample function issues a request twice in one invocation.
C5_Original_NoRequestTwice ==
    \A i, j \in 1..Len(smpCalls) : i # j => smpCalls[i] # smpCalls[j]

\* C5 amended: only get_patch (under retry.Retry) and update_in_transaction
\* (under async_transactional) issue a request again, and each further
\* invocation of the body follows an attempt that failed with an error the
\* decorator retries on; every other sample function issues each request at
\* most once.
C5_RetryOnlyByDecorators ==
    /\ smpFn \notin Decorated =>
        /\ smpAttempt <= 1
        /\ \A i, j \in 1..Len(smpCalls) : i # j => smpCalls[i] # smpCalls[j]
    /\ smpFn \in Decorated =>
        /\ smpAttempt - 1 <= Cardinality({i \in 1..Len(smpRaised) :
                                            smpRaised[i] \in smpFn.reinvokeOn})
        /\ \A i \in 1..Len(smpCalls) : Count(smpCalls, smpCalls[i]) <= smpAttempt

C5_Witness ==
    /\ smpFn = Fn_get_patch
    /\ smpAttempt = 2
    /\ smpOutcome = "returned"
    /\ Count(smpCalls, "requests.get") = 2

\* C6: once __call__ has ended, with p the PATH_INFO without its leading
\* slashes: when some route's regex matches p, exactly one handler was
\* instantiated, that of the first such route in list order, and the answer
\* is that handler's; when none matches, no handler was instantiated and the
\* answer is 404 Not Found with Content-Type text/plain.
C6_FirstMatchingRouteOrNotFound ==
    rtrPc = "called" =>
        LET raw == IF rtrEnv.has_path THEN rtrEnv.PATH_INFO ELSE <<>>
            n == CHOOSE m \in 0..Len(raw) :
                    /\ \A i \in 1..m : raw[i] = "/"
                    /\ m < Len(raw) => raw[m + 1] # "/"
            p == SubSeq(raw, n + 1, Len(raw))
            matching == {i \in 1..Len(urls) : Search(urls[i].regex, p)}
        IN IF matching # {}
           THEN \E i \in matching :
                    /\ \A j \in matching : i <= j
                    /\ rtrHandlers = <<urls[i].handler>>
                    /\ rtrResp \in HandlerResults(urls[i].handler)
                    /\ rtrEnv.has_args
           ELSE /\ rtrHandlers = <<>>
                /\ rtrResp = [kind |-> "response", status |-> "404 Not Found",
                              ctype |-> "text/plain"]
                /\ ~rtrEnv.has_args

\* a path two routes match: the earlier route's handler ran
C6_Witness ==
    /\ rtrPc = "called"
    /\ rtrEnv.PATH_INFO = <<"/", "view_photo", "/", "upload_photo">>
    /\ rtrHandlers = <<"UploadPhotoHandler">>

\* C7: get_static_ip_address issues exactly one get: through AddressesClient
\* with the region given when a region is specified, through
\* GlobalAddressesClient without a region when region is None; a NotFound of
\* the client leaves the function and nothing is returned, otherwise the
\* Address the client returned is returned.
C7_OneGetRegionalOrGlobal ==
    ipPc = "done" =>
        /\ Len(ipCalls) = 1
        /\ ipCalls[1].project = ipArgs.project_id
        /\ ipCalls[1].address = ipArgs.address_name
        /\ ipArgs.region \in RegionNames =>
            ipCalls[1].client = "AddressesClient" /\ ipCalls[1].region = ipArgs.region
        /\ ipArgs.region = "None" =>
            ipCalls[1].client = "GlobalAddressesClient" /\ ipCalls[1].region = "absent"
        /\ ipGot.kind = "raise" => ipExc = "NotFound" /\ ipRet = NoAddress
        /\ ipGot.kind = "return" => ipExc = "None" /\ ipRet = ipGot.value

\* a regional address is found although a global one of the same name exists
C7_Witness ==
    /\ ipPc = "done"
    /\ ipArgs.region = "us-central1"
    /\ ipRet = [project |-> "project-1", region |-> "us-central1", name |-> "addr-a"]
    /\ [project |-> "project-1", region |-> "global", name |-> "addr-a"] \in ipStore

\* C8: when the script has ended and the command line named a registered
\* subcommand with its argument, the script called exactly the function the
\* subcommand is registered for, with that argument, and ended in no error.
C8_EachSubcommandRunsItsFunction ==
    (visPc \in {"done", "error"} /\ visArgv.command \in VisCommands
        /\ visArgv.value # "missing") =>
        /\ visErr = "None"
        /\ visCalled =
            <<[fn |-> CASE visArgv.command = ObjectLocalization -> "localize_objects"
                        [] visArgv.command = ObjectLocalizationUri -> "localize_objects_uri"
                        [] visArgv.command = HandwrittenOcr -> "detect_handwritten_ocr"
                        [] visArgv.command = HandwrittenOcrUri -> "detect_handwritten_ocr_uri"
                        [] visArgv.command = DocFeatures -> "detect_document_features"
                        [] visArgv.command = DocFeaturesUri -> "detect_document_features_uri",
               arg |-> visArgv.value]>>

\* C9: when the script has ended and the command line gave one of the five
\* commands with a path, exactly the matching function was called, once,
\* with that path.
C9_CommandRunsMatchingFunction ==
    (vidPc \in {"done", "error"}
        /\ vidArgv.command \in {"labels", "labels_file", "shots", "explicit_content",
                                "transcribe"}
        /\ vidArgv.value # "missing") =>
        vidCalled =
            <<[fn |-> CASE vidArgv.command = "labels" -> "analyze_labels"
                        [] vidArgv.command = "labels_file" -> "analyze_labels_file"
                        [] vidArgv.command = "shots" -> "analyze_shots"
                        [] vidArgv.command = "explicit_content" -> "analyze_explicit_content"
                        [] vidArgv.command = "transcribe" -> "speech_transcription",
               arg |-> vidArgv.value]>>

\* C10: the tests run in the order create_queue, update_queue, create_task,
\* create_task_with_data, create_task_with_name, delete_task, retry_task,
\* delete_queue; every request on QUEUE_NAME_1 other than its creation and
\* deletion comes after the create_queue test and before the delete_queue
\* test; and once all tests have run, no queue the tests created is left.
C10_OrderedAndEveryQueueDeleted ==
    /\ IsPrefix([i \in 1..Len(tskRan) |-> tskRan[i].test],
                <<"test_create_queue", "test_update_queue", "test_create_task",
                  "test_create_task_with_data", "test_create_task_with_name",
                  "test_delete_task", "test_retry_task", "test_delete_queue">>)
    /\ \A i \in 1..Len(tskOps) :
        (tskOps[i].queue = QUEUE_NAME_1
            /\ tskOps[i].api \notin {"create_queue", "delete_queue"}) =>
            /\ \E c \in 1..Len(tskRan) : tskRan[c].test = "test_create_queue"
            /\ \A d \in 1..i : tskOps[d].api # "delete_queue"
    /\ Len(tskRan) = Len(Schedule) => tskCreated \cap tskQueues = {}

\* the delete_queue requests made so far
HqDeletes == {i \in 1..Len(hqOps) : hqOps[i].api = "delete_queue"}

\* C11: the q fixture creates the queue before the test body runs: the first
\* request is its create_queue and the body runs only once that returned.
\* After the body, passed or failed, the fixture's last request is a
\* delete_queue of the queue it created. A deletion that raised is printed,
\* and no exception ever leaves the teardown.
C11_CreateBeforeDeleteAfterNeverRaises ==
    /\ hqExc = "None"
    /\ hqPc \in {"body", "teardown", "done"} =>
        hqOps[1] = HqOp("create_queue", hqName, hqOps[1].raised)
    /\ hqVerdict \in {"passed", "failed"} =>
        /\ hqOps[1].raised = "None"
        /\ hqQueue = hqName
    /\ (hqPc = "done" /\ hqVerdict \in {"passed", "failed"}) =>
        /\ Last(hqOps).api = "delete_queue"
        /\ Last(hqOps).queue = hqQueue
        /\ Cardinality(HqDeletes) = 1
        /\ IF Last(hqOps).raised = "None"
           THEN hqStdout = <<>>
           ELSE /\ Len(hqStdout) = 1
                /\ hqStdout[1].e = Last(hqOps).raised
    /\ hqPc \in {"setup", "body", "teardown"} => HqDeletes = {}

\* the body failed and the deletion raised: printed, swallowed
C11_Witness ==
    /\ hqPc = "done"
    /\ hqVerdict = "failed"
    /\ Last(hqOps).api = "delete_queue"
    /\ Last(hqOps).raised # "None"
    /\ hqStdout # <<>>

\* C12: under backoff.on_exception(backoff.expo, DeadlineExceeded,
\* max_time=...) the wrapped call is made again only after an attempt that
\* raised DeadlineExceeded; an attempt that returns ends the wrapper with its
\* value, an attempt that raises anything else ends it with that exception,
\* and a DeadlineExceeded leaves the wrapper exactly when the elapsed time
\* had reached max_time.
C12_RetryOnlyOnDeadlineExceeded ==
    /\ \A i \in 1..(Len(bkOutcomes) - 1) : bkOutcomes[i] = "DeadlineExceeded"
    /\ bkOutcomes # <<>> =>
        /\ Last(bkOutcomes) = "returns" =>
            bkPc = "returned" /\ bkRet = "response" /\ bkExc = "None"
        /\ Last(bkOutcomes) \in BkErrors \ {"DeadlineExceeded"} =>
            bkPc = "raised" /\ bkExc = Last(bkOutcomes) /\ bkRet = "None"
        /\ (Last(bkOutcomes) = "DeadlineExceeded" /\ bkPc # "calling") =>
            IF bkElapsed >= bkMaxTime
            THEN bkPc = "raised" /\ bkExc = "DeadlineExceeded" /\ bkRet = "None"
            ELSE bkPc = "sleeping" /\ bkExc = "None"
    /\ bkPc = "returned" => Last(bkOutcomes) = "returns"
    /\ bkPc = "raised" => bkExc = Last(bkOutcomes)

\* two attempts timed out, the second after the budget was spent
C12_Witness ==
    /\ bkPc = "raised"
    /\ bkExc = "DeadlineExceeded"
    /\ Len(bkOutcomes) >= 2
    /\ bkElapsed >= bkMaxTime

\* the places of statement s among the statements the test has executed
SbPlaces(s) == {i \in 1..Len(sbEvents) : sbEvents[i] = s}

Before(s, t) == \A j \in SbPlaces(t) : \E i \in SbPlaces(s) : i < j

\* The part of C13 about the test process: both processes are started
\* before any join, the join on the pipeline lasts at most 90 seconds, both
\* terminate() calls come before the query, and a process runs only once its
\* own start() was executed.
SbTestOrder ==
    /\ Before("publish.start", "pipeline.join")
    /\ Before("pipeline.start", "pipeline.join")
    /\ Before("publish.start", "publish.join")
    /\ Before("pipeline.start", "publish.join")
    /\ sbWaited <= JoinTimeout
    /\ Before("pipeline.terminate", "query")
    /\ Before("publish.terminate", "query")
    /\ sbPub # "new" => SbPlaces("publish.start") # {}
    /\ sbPipe # "new" => SbPlaces("pipeline.start") # {}
    /\ SbPlaces("query") # {} => sbPub # "running" /\ sbPipe # "running"

C14_CollectionEmptyAfterAwait ==
    dcPc = "done" => dcColl = {}

DgChain == <<validate_file_exists, start_dataflow_job, execute_bigquery_sql>>

DgRan(t) == dgState[t] \in {"running", "success", "failed"}

\* C15: the tasks start in the order validate_file_exists,
\* start-dataflow-template-job, execute_bigquery_sql, each at most once; a
\* task has started only if its predecessor in the chain succeeded; and when
\* a task failed, no task after it in the chain has started.
C15_LinearChainStopsAtFailure ==
    /\ IsPrefix(dgStarted, DgChain)
    /\ \A i \in 1..Len(DgChain) : DgRan(DgChain[i]) <=> i <= Len(dgStarted)
    /\ \A i \in 2..Len(DgChain) :
        DgRan(DgChain[i]) => dgState[DgChain[i - 1]] = "success"
    /\ \A i, j \in 1..Len(DgChain) :
        (i < j /\ dgState[DgChain[i]] = "failed") => ~DgRan(DgChain[j])

\* the sensor succeeded, the Dataflow job failed, the check never ran
C15_Witness ==
    /\ dgState[validate_file_exists] = "success"
    /\ dgState[start_dataflow_job] = "failed"
    /\ dgState[execute_bigquery_sql] = "upstream_failed"
    /\ dgAlerts = <<start_dataflow_job>>

PsEnded == psPc \in {"answered", "raised"}

\* C16: index() has answered 400, and raised nothing, whenever from_http
\* raised MissingRequiredFields, InvalidStructuredJSON or
\* InvalidRequiredFields, whenever the event's data is empty, and whenever
\* the data is not a dict or has no 'message' key.
C16_Answers400 ==
    (PsEnded /\ (\/ psFromHttp \in PsCaught
                 \/ psFromHttp = "event" /\ PsFalsy(psEvent.data)
                 \/ psFromHttp = "event" /\ psEvent.data.kind # "dict"
                 \/ psFromHttp = "event" /\ psEvent.data.message = PsAbsentMessage)) =>
        /\ psPc = "answered"
        /\ psExc = "None"
        /\ psResp.status = 400

\* the data is a dict that is not empty and has no 'message' key
C16_Witness ==
    /\ psPc = "answered"
    /\ psFromHttp = "event"
    /\ psEvent.data.kind = "dict"
    /\ ~psEvent.data.empty
    /\ psEvent.data.message = PsAbsentMessage
    /\ psResp.status = 400

\* C17: for an event whose data is a dict with a 'message' key, index() has
\* answered 200 with 'Hello, <name>! ID: <event id>', the name being the
\* decoded and stripped message['data'] when the message is a dict with
\* 'data', and 'World' otherwise.
C17_Answers200WithName ==
    (PsEnded /\ psFromHttp = "event" /\ psEvent.data.kind = "dict"
        /\ psEvent.data.message # PsAbsentMessage) =>
        /\ psPc = "answered"
        /\ psResp.status = 200
        /\ psResp.body =
            PsHello(IF PsHasData(psEvent.data.message)
                    THEN strip(psEvent.data.message.data.bytes)
                    ELSE World,
                    psEvent.id)

\* C18: once the module teardown has ended, the service holds none of the
\* annotation spec sets the test's calls created.
C18_EveryCreatedSetDeleted ==
    clPc = "done" => clCreated \cap clService = {}

====
